---------------------------- MODULE Spec2Model ----------------------------
(***************************************************************************)
(* genro-core micro_db: the per-thread environment (currentEnv, TempEnv),  *)
(* the trigger stack guard (in_triggerstack), Table.insert/delete/get and  *)
(* the schema migration of the SQLite adapter.                             *)
(*                                                                         *)
(* A Python dict is a TLA+ function whose DOMAIN is the set of its keys.   *)
(* The Python value None is the string "None".                             *)
(***************************************************************************)
EXTENDS Integers, Sequences, FiniteSets, TLC

VARIABLES
    ident,               \* _thread.get_ident() of each running thread
    currentEnvByThread,  \* GenroMicroDb._currentEnvByThread (class attribute)
    tempStack,           \* the TempEnv objects of the open with-blocks, per thread
    exc,                 \* an exception is propagating in the thread
    base,                \* history: currentEnv when the outermost open block was entered
    touched,             \* history: the open blocks wrote currentEnv directly
    lastOp,              \* history: the operation that led to this state
    triggerStack,        \* currentEnv['_trigger_stack'] of each thread
    callStack,           \* the wrapped calls executing in each thread, outermost first
    lastCall,            \* history: the wrapped call that was made or ended last
    pkType,              \* dtype of the primary key column of the table: "L" or "T"
    rows,                \* the rows of the table in the database, by primary key
    seq,                 \* the largest key the table ever held (sqlite_sequence)
    lastCrud,            \* history: the insert, delete or get that ran last
    columns,             \* table.columns: the column definitions, in dict order
    dbExists,            \* the table exists in the database
    dbCols,              \* the names of its columns in the database, in order
    dbRows,              \* its rows: each a dict from column name to "v" or "NULL"
    tempExists,          \* a table <sql_name>_temp exists in the database
    lastMig,             \* history: the migrate() that ran last
    written,             \* per database: statements executed and not committed
    committed,           \* per database: statements committed
    issued,              \* history: every statement that was executed
    func,                \* the function being defined, with its _api_metadata
    classes,             \* the classes: name, module, base, _api_base_path, members
    lastApi,              \* history: the decoration or introspection that ran last
    appDatabases,        \* GenroMicroApplication._databases as __init__ created it
    appDict,             \* the entries add_db put in the __dict__ of the application
    dbCount,             \* the GenroMicroDb objects created so far
    returned,            \* history: per name, the value of the last add_db that returned
    lastApp,             \* history: the last call of add_db or db and its outcome
    lastSelect,          \* history: the last compile_select call, its sql and its params
    connParams,          \* the connection parameters GenroMicroDb.__init__ stored
    connection,          \* GenroMicroDb._connection, NoConnection for None
    opened,              \* the connections sqlite3.connect has made so far
    closedConns,         \* the connections that were closed
    registered,          \* the number of tables in db.tables
    lastConn             \* history: the last call on the database and its outcome

envVars == <<ident, currentEnvByThread, tempStack, exc, base, touched, lastOp>>

trigVars == <<triggerStack, callStack, lastCall>>

crudVars == <<pkType, rows, seq, lastCrud>>

migVars == <<columns, dbExists, dbCols, dbRows, tempExists, lastMig>>

comVars == <<written, committed, issued>>

apiVars == <<func, classes, lastApi>>

appVars == <<appDatabases, appDict, dbCount, returned, lastApp>>

selVars == <<lastSelect>>

connVars == <<connParams, connection, opened, closedConns, registered, lastConn>>

vars == <<envVars, trigVars, crudVars, migVars, comVars, apiVars, appVars, selVars, connVars>>

notEnvVars == <<trigVars, crudVars, migVars, comVars, apiVars, appVars, selVars, connVars>>

notTrigVars == <<envVars, crudVars, migVars, comVars, apiVars, appVars, selVars, connVars>>

notCrudVars == <<envVars, trigVars, migVars, comVars, apiVars, appVars, selVars, connVars>>

notMigVars == <<envVars, trigVars, crudVars, comVars, apiVars, appVars, selVars, connVars>>

notTrigComVars == <<envVars, crudVars, migVars, apiVars, appVars, selVars, connVars>>

notApiVars == <<envVars, trigVars, crudVars, migVars, comVars, appVars, selVars, connVars>>

notAppVars == <<envVars, trigVars, crudVars, migVars, comVars, apiVars, selVars, connVars>>

notSelVars == <<envVars, trigVars, crudVars, migVars, comVars, apiVars, appVars, connVars>>

notConnVars == <<envVars, trigVars, crudVars, migVars, comVars, apiVars, appVars, selVars>>

-----------------------------------------------------------------------------
(* Bounds and input sets                                                   *)

MaxBlocks == 1    \* open with-blocks per thread when two keys or two threads vary
MaxNest == 2      \* open with-blocks nested on one key

Threads == {"T1", "T2"}
MainThread == "T1"
Idents == {"i1", "i2"}
NoIdent == "none"

Keys == {"user", "level"}
Values == {"None", "admin"}
NestKeys == {"level"}
NestValues == {"None", "admin", "guest"}

-----------------------------------------------------------------------------
(* Python dict operations                                                  *)

EmptyDict == [k \in {} |-> "None"]

DictGet(d, k) == IF k \in DOMAIN d THEN d[k] ELSE "None"

DictSet(d, k, v) == [x \in DOMAIN d \cup {k} |-> IF x = k THEN v ELSE d[x]]

DictPop(d, k) == [x \in DOMAIN d \ {k} |-> d[x]]

DictUpdate(d, e) ==
    [x \in DOMAIN d \cup DOMAIN e |-> IF x \in DOMAIN e THEN e[x] ELSE d[x]]

Restrict(d, S) == [x \in DOMAIN d \cap S |-> d[x]]

\* every dict with keys in K and values in V
DictsOver(K, V) == UNION {[S -> V] : S \in SUBSET K}

-----------------------------------------------------------------------------
(* GenroMicroDb.currentEnv                                                 *)

EnvKeyShared(t) == "i1"

\* thread_id = _thread.get_ident()
EnvKey(t) == ident[t]

\* the store after the property ran: a missing entry is created empty
CurrentEnvStore(t) ==
    IF EnvKey(t) \in DOMAIN currentEnvByThread
    THEN currentEnvByThread
    ELSE DictSet(currentEnvByThread, EnvKey(t), EmptyDict)

\* the dict the property returns
CurrentEnv(t) == CurrentEnvStore(t)[EnvKey(t)]

\* the store after the thread replaced the contents of its dict by env
StoreWith(t, env) == DictSet(CurrentEnvStore(t), EnvKey(t), env)

-----------------------------------------------------------------------------
(* TempEnv.__enter__ / __exit__                                            *)

EnterSavedNothing(env, kwargs) == EmptyDict

\* self.savedValues after the loop of __enter__
EnterSaved(env, kwargs) ==
    [k \in {x \in DOMAIN kwargs : x \in DOMAIN env} |-> DictGet(env, k)]

\* self.addedKeys after the loop of __enter__ (a list of pairs with distinct keys)
EnterAdded(env, kwargs) == [k \in DOMAIN kwargs \ DOMAIN env |-> kwargs[k]]

\* currentEnv after the loop of __enter__
EnterEnv(env, kwargs) == DictUpdate(env, kwargs)

ExitEnvNoRestore(env, saved, added) ==
    [x \in DOMAIN env \ {k \in DOMAIN added : DictGet(env, k) = added[k]} |-> env[x]]

\* currentEnv after __exit__: added keys are popped only if their value is
\* still the one passed, then the saved values are written back
ExitEnv(env, saved, added) ==
    LET removed == {k \in DOMAIN added : DictGet(env, k) = added[k]}
        after == [x \in DOMAIN env \ removed |-> env[x]]
    IN DictUpdate(after, saved)

-----------------------------------------------------------------------------
(* Operations of a thread on its environment                               *)

Running(t) == ident[t] # NoIdent

Depth(t) == Len(tempStack[t])

NoOp == [op |-> "init", t |-> MainThread, kwargs |-> EmptyDict, entry |-> EmptyDict,
         before |-> EmptyDict, base |-> EmptyDict, touched |-> FALSE, exc |-> FALSE]

\* with db.tempEnv(**kwargs): the block is entered
Enter(t, kwargs) ==
    /\ Running(t) /\ ~exc[t]
    /\ LET env == CurrentEnv(t)
           frame == [kwargs |-> kwargs,
                     savedValues |-> EnterSaved(env, kwargs),
                     addedKeys |-> EnterAdded(env, kwargs),
                     entry |-> Restrict(env, DOMAIN kwargs)]
       IN /\ currentEnvByThread' = StoreWith(t, EnterEnv(env, kwargs))
          /\ tempStack' = [tempStack EXCEPT ![t] = Append(@, frame)]
          /\ base' = [base EXCEPT ![t] = IF Depth(t) = 0 THEN env ELSE @]
          /\ lastOp' = [NoOp EXCEPT !.op = "enter", !.t = t, !.kwargs = kwargs]
    /\ UNCHANGED <<ident, exc, touched>>
    /\ UNCHANGED notEnvVars

\* the innermost block is left, normally or by the propagating exception
Exit(t) ==
    /\ Running(t)
    /\ Depth(t) > 0
    /\ LET env == CurrentEnv(t)
           frame == tempStack[t][Depth(t)]
       IN /\ currentEnvByThread' =
                 StoreWith(t, ExitEnv(env, frame.savedValues, frame.addedKeys))
          /\ tempStack' = [tempStack EXCEPT ![t] = SubSeq(@, 1, Depth(t) - 1)]
          /\ lastOp' = [op |-> "exit", t |-> t, kwargs |-> frame.kwargs,
                        entry |-> frame.entry,
                        before |-> Restrict(env, DOMAIN frame.kwargs),
                        base |-> base[t], touched |-> touched[t], exc |-> exc[t]]
    /\ base' = [base EXCEPT ![t] = IF Depth(t) = 1 THEN EmptyDict ELSE @]
    /\ touched' = [touched EXCEPT ![t] = IF Depth(t) = 1 THEN FALSE ELSE @]
    /\ UNCHANGED <<ident, exc>>
    /\ UNCHANGED notEnvVars

\* the body of the innermost block raises
Raise(t) ==
    /\ Running(t) /\ ~exc[t]
    /\ Depth(t) > 0
    /\ exc' = [exc EXCEPT ![t] = TRUE]
    /\ lastOp' = [NoOp EXCEPT !.op = "raise", !.t = t]
    /\ UNCHANGED <<ident, currentEnvByThread, tempStack, base, touched>>
    /\ UNCHANGED notEnvVars

\* an except clause around a block that was left by the exception handles it
Catch(t) ==
    /\ Running(t) /\ exc[t]
    /\ lastOp.op = "exit" /\ lastOp.t = t
    /\ exc' = [exc EXCEPT ![t] = FALSE]
    /\ lastOp' = [NoOp EXCEPT !.op = "catch", !.t = t]
    /\ UNCHANGED <<ident, currentEnvByThread, tempStack, base, touched>>
    /\ UNCHANGED notEnvVars

\* db.currentEnv[k] = v
DirectSet(t, k, v) ==
    /\ Running(t) /\ ~exc[t]
    /\ currentEnvByThread' = StoreWith(t, DictSet(CurrentEnv(t), k, v))
    /\ touched' = [touched EXCEPT ![t] = @ \/ Depth(t) > 0]
    /\ lastOp' = [NoOp EXCEPT !.op = "set", !.t = t]
    /\ UNCHANGED <<ident, tempStack, exc, base>>
    /\ UNCHANGED notEnvVars

\* db.currentEnv.pop(k, None)
DirectDel(t, k) ==
    /\ Running(t) /\ ~exc[t]
    /\ currentEnvByThread' = StoreWith(t, DictPop(CurrentEnv(t), k))
    /\ touched' = [touched EXCEPT ![t] = @ \/ Depth(t) > 0]
    /\ lastOp' = [NoOp EXCEPT !.op = "del", !.t = t]
    /\ UNCHANGED <<ident, tempStack, exc, base>>
    /\ UNCHANGED notEnvVars

\* a thread starts: the interpreter gives it an identifier no live thread has
Start(t, i) ==
    /\ ~Running(t)
    /\ \A u \in Threads : ident[u] # i
    /\ ident' = [ident EXCEPT ![t] = i]
    /\ lastOp' = [NoOp EXCEPT !.op = "start", !.t = t]
    /\ UNCHANGED <<currentEnvByThread, tempStack, exc, base, touched>>
    /\ UNCHANGED notEnvVars

\* a thread ends, outside every with-block; its dict stays in the store
Finish(t) ==
    /\ Running(t) /\ t # MainThread
    /\ Depth(t) = 0
    /\ ident' = [ident EXCEPT ![t] = NoIdent]
    /\ exc' = [exc EXCEPT ![t] = FALSE]
    /\ lastOp' = [NoOp EXCEPT !.op = "finish", !.t = t]
    /\ UNCHANGED <<currentEnvByThread, tempStack, base, touched>>
    /\ UNCHANGED notEnvVars

EnvInit ==
    /\ ident = [t \in Threads |-> IF t = MainThread THEN "i1" ELSE NoIdent]
    /\ currentEnvByThread = EmptyDict
    /\ tempStack = [t \in Threads |-> <<>>]
    /\ exc = [t \in Threads |-> FALSE]
    /\ base = [t \in Threads |-> EmptyDict]
    /\ touched = [t \in Threads |-> FALSE]
    /\ lastOp = NoOp

-----------------------------------------------------------------------------------------------------------------------------------------------------
(* in_triggerstack and the wrapped methods of Table                       *)

MaxCallDepth == 3

\* the tables registered in two databases: db.add_table(ProductTable) in both
TableInstances ==
    {[db |-> "db1", name |-> "product"],
     [db |-> "db1", name |-> "audit"],
     [db |-> "db2", name |-> "product"]}

Methods == {"insert", "update", "delete"}

InsertBodyTriggerFirst ==
    <<"checkPkey", "trigger_onInserting", "_validate", "adapter.insert", "trigger_onInserted">>

\* the statements of Table.insert, in order
InsertBody ==
    <<"checkPkey", "_validate", "trigger_onInserting", "adapter.insert", "trigger_onInserted">>

\* the statements of Table.update
UpdateBody == <<"trigger_onUpdating", "adapter.update", "trigger_onUpdated">>

\* the statements of Table.delete
DeleteBody == <<"trigger_onDeleting", "adapter.delete", "trigger_onDeleted">>

Body(method) ==
    CASE method = "insert" -> InsertBody
      [] method = "update" -> UpdateBody
      [] method = "delete" -> DeleteBody

\* the hooks a subclass overrides, from which further wrapped calls are made
TriggerHooks ==
    {"trigger_onInserting", "trigger_onInserted", "trigger_onUpdating",
     "trigger_onUpdated", "trigger_onDeleting", "trigger_onDeleted"}

\* trigger_id = f"{self.name}.{method.__name__}"
TriggerId(table, method) == <<table.name, method>>

Range(s) == {s[i] : i \in 1..Len(s)}

NeverInStack(stack, id) == FALSE

\* trigger_id in trigger_stack
InStack(stack, id) == id \in Range(stack)

RemoveNothing(stack, id) == stack

\* list.remove: the first occurrence is removed
RemoveFirst(stack, id) ==
    IF id \notin Range(stack) THEN stack
    ELSE LET i == CHOOSE n \in 1..Len(stack) :
                     stack[n] = id /\ \A m \in 1..(n - 1) : stack[m] # id
         IN SubSeq(stack, 1, i - 1) \o SubSeq(stack, i + 1, Len(stack))

CallDepth(t) == Len(callStack[t])

TopCall(t) == callStack[t][CallDepth(t)]

\* the statement the innermost executing call is at
CurrentStep(t) == Body(TopCall(t).method)[TopCall(t).at]

\* the same method of the same table instance is executing in the thread
Executing(t, table, method) ==
    \E i \in 1..CallDepth(t) :
        callStack[t][i].table = table /\ callStack[t][i].method = method

\* the application makes a call, or the code of a trigger hook does
MayCall(t) == IF CallDepth(t) = 0 THEN TRUE ELSE CurrentStep(t) \in TriggerHooks

\* history: the statements executed and those committed so far, as a call
\* finds them
StmtsNow == [issued |-> issued, committed |-> UNION {committed[db] : db \in DOMAIN committed}]

NoCall == [op |-> "init", table |-> [db |-> "db1", name |-> "product"],
           method |-> "insert", executing |-> FALSE, outcome |-> "none",
           result |-> "None", log |-> <<>>, depth |-> 0, before |-> <<>>,
           stmts |-> [issued |-> {}, committed |-> {}]]

\* table.insert / update / delete is called, by the application or from
\* inside a trigger hook: the wrapper up to the call of the method
Call(t, table, method) ==
    /\ Running(t)
    /\ MayCall(t)
    /\ LET id == TriggerId(table, method)
           called == [NoCall EXCEPT !.op = "call", !.table = table, !.method = method,
                                    !.executing = Executing(t, table, method),
                                    !.depth = CallDepth(t),
                                    !.before = triggerStack[t],
                                    !.stmts = StmtsNow]
       IN IF InStack(triggerStack[t], id)
          THEN /\ lastCall' = [called EXCEPT !.outcome = "suppressed"]
               /\ UNCHANGED <<triggerStack, callStack>>
          ELSE /\ CallDepth(t) < MaxCallDepth
               /\ triggerStack' = [triggerStack EXCEPT ![t] = Append(@, id)]
               /\ callStack' = [callStack EXCEPT ![t] =
                     Append(@, [table |-> table, method |-> method, at |-> 1,
                                log |-> <<Body(method)[1]>>,
                                before |-> triggerStack[t],
                                stmts |-> StmtsNow])]
               /\ lastCall' = [called EXCEPT !.outcome = "entered",
                                             !.log = <<Body(method)[1]>>]
    /\ UNCHANGED notTrigVars

\* the statement the innermost call is at completes and the next one begins
StepDone(t) ==
    /\ CallDepth(t) > 0
    /\ TopCall(t).at < Len(Body(TopCall(t).method))
    /\ LET next == Body(TopCall(t).method)[TopCall(t).at + 1]
       IN /\ callStack' = [callStack EXCEPT ![t][CallDepth(t)] =
                 [@ EXCEPT !.at = @ + 1, !.log = Append(@, next)]]
          /\ lastCall' = [NoCall EXCEPT !.op = "step", !.table = TopCall(t).table,
                                        !.method = TopCall(t).method,
                                        !.log = Append(TopCall(t).log, next),
                                        !.depth = CallDepth(t) - 1]
    /\ UNCHANGED triggerStack
    /\ UNCHANGED notTrigVars

\* the last statement completes: the method returns, the finally clause runs
Return(t) ==
    /\ CallDepth(t) > 0
    /\ TopCall(t).at = Len(Body(TopCall(t).method))
    /\ triggerStack' = [triggerStack EXCEPT ![t] =
           RemoveFirst(@, TriggerId(TopCall(t).table, TopCall(t).method))]
    /\ callStack' = [callStack EXCEPT ![t] = SubSeq(@, 1, CallDepth(t) - 1)]
    /\ lastCall' = [NoCall EXCEPT !.op = "end", !.table = TopCall(t).table,
                                  !.method = TopCall(t).method,
                                  !.outcome = "returned", !.result = "value",
                                  !.log = TopCall(t).log, !.depth = CallDepth(t) - 1,
                                  !.before = TopCall(t).before,
                                  !.stmts = TopCall(t).stmts]
    /\ UNCHANGED notTrigVars

\* the statement the innermost call is at raises (or lets the exception of a
\* call it made pass): the finally clause runs and the exception leaves the call
StepRaise(t) ==
    /\ CallDepth(t) > 0
    /\ triggerStack' = [triggerStack EXCEPT ![t] =
           RemoveFirst(@, TriggerId(TopCall(t).table, TopCall(t).method))]
    /\ callStack' = [callStack EXCEPT ![t] = SubSeq(@, 1, CallDepth(t) - 1)]
    /\ lastCall' = [NoCall EXCEPT !.op = "end", !.table = TopCall(t).table,
                                  !.method = TopCall(t).method,
                                  !.outcome = "raised", !.result = "exception",
                                  !.log = TopCall(t).log, !.depth = CallDepth(t) - 1,
                                  !.before = TopCall(t).before,
                                  !.stmts = TopCall(t).stmts]
    /\ UNCHANGED notTrigVars

TrigInit ==
    /\ triggerStack = [t \in Threads |-> <<>>]
    /\ callStack = [t \in Threads |-> <<>>]
    /\ lastCall = NoCall

-----------------------------------------------------------------------------
(* DatabaseAdapter.insert / update / delete: execute, then commit         *)

MaxWrites == 2

Databases == {ti.db : ti \in TableInstances}

AdapterSteps == {"adapter.insert", "adapter.update", "adapter.delete"}

CommitNothing(done, pending) == done

\* connection.commit(): what the connection executed becomes committed
Commit(done, pending) == done \cup pending

\* the adapter call the innermost wrapped method is at executes its statement
\* and commits; with runs = FALSE an update finds nothing to set (sql is None)
\* and returns without a statement
AdapterDone(t, runs) ==
    /\ CallDepth(t) > 0
    /\ CurrentStep(t) \in AdapterSteps
    /\ runs \/ CurrentStep(t) = "adapter.update"
    /\ LET top == TopCall(t)
           next == Body(top.method)[top.at + 1]
           db == top.table.db
           w == [table |-> top.table, method |-> top.method, depth |-> CallDepth(t)]
       IN /\ callStack' = [callStack EXCEPT ![t][CallDepth(t)] =
                 [@ EXCEPT !.at = @ + 1, !.log = Append(@, next)]]
          /\ lastCall' = [NoCall EXCEPT !.op = "step", !.table = top.table,
                                        !.method = top.method,
                                        !.log = Append(top.log, next),
                                        !.depth = CallDepth(t) - 1]
          /\ IF runs
             THEN /\ Cardinality(issued) < MaxWrites
                  /\ issued' = issued \cup {w}
                  /\ committed' = [committed EXCEPT ![db] = Commit(@, written[db] \cup {w})]
                  /\ written' = [written EXCEPT ![db] = {}]
             ELSE UNCHANGED comVars
    /\ UNCHANGED triggerStack
    /\ UNCHANGED notTrigComVars

ComInit ==
    /\ written = [db \in Databases |-> {}]
    /\ committed = [db \in Databases |-> {}]
    /\ issued = {}

-----------------------------------------------------------------------------
(* Table.insert, delete, get and list on a table with columns id, title   *)
(*                                                                         *)
(* A record is [id, title]; a field the dict does not hold is Omitted      *)
(* (id) or "omitted" (title). Keys are 1..MaxKey; a text key (a uuid) is   *)
(* numbered like an integer key.                                           *)

MaxKey == 3

Omitted == -2      \* the record has no entry for the primary key
EmptyStr == -1     \* the record holds '' for the primary key
NoneKey == 0       \* the record holds None for the primary key

KeyInputs == {Omitted, EmptyStr, NoneKey} \cup (1..MaxKey)

\* "bad" is a value of the wrong type for the column
TitleInputs == {"omitted", "a", "b", "bad"}

BookTable == [db |-> "db1", name |-> "book"]

\* Table.pkeyValue: None for a numeric key, a fresh uuid for a text key
PkeyValue(next) == IF pkType = "L" THEN NoneKey ELSE next

\* Table.checkPkey: the primary key entry of the record after the call
CheckPkey(id, next) ==
    IF id \in {Omitted, NoneKey, EmptyStr}
    THEN IF PkeyValue(next) # NoneKey THEN PkeyValue(next) ELSE id
    ELSE id

\* Table._validate raises: a required field is missing or of the wrong type
ValidateRaises(title) == title \in {"omitted", "bad"}

\* the INSERT statement raises: '' in an integer key column, or a key in use
InsertRaises(id) ==
    \/ id = EmptyStr
    \/ id \in DOMAIN rows

\* the key of the row the INSERT creates: the given one, or the next of the sequence
InsertedKey(id) == IF id \in {Omitted, NoneKey} THEN seq + 1 ELSE id

\* DatabaseAdapter.insert: data[pkey] if the record has the entry, else lastrowid
AdapterInsertResult(id) == IF id # Omitted THEN id ELSE InsertedKey(id)

DeleteRowsAll(table, id) == [k \in {} |-> "a"]

\* DELETE FROM t WHERE id = ?
DeleteRows(table, id) == [k \in DOMAIN table \ {id} |-> table[k]]

\* Table.get: SELECT * FROM t WHERE id = ?, KeyError if there is no row
GetResult(table, pk) ==
    IF pk \in DOMAIN table
    THEN [raises |-> "none", id |-> pk, title |-> table[pk]]
    ELSE [raises |-> "KeyError", id |-> NoneKey, title |-> "omitted"]

\* Table.list(): SELECT * FROM t
ListResult(table) == {[id |-> k, title |-> table[k]] : k \in DOMAIN table}

NoRows == [k \in {} |-> "a"]

NoCrud == [op |-> "init", id |-> Omitted, title |-> "omitted", outcome |-> "none",
           result |-> NoneKey, before |-> NoRows, created |-> NoneKey]

\* table.insert(record) called by the application; the trigger hooks are
\* those of Table, which do nothing
Insert(id, title) ==
    /\ ~InStack(triggerStack[MainThread], TriggerId(BookTable, "insert"))
    /\ LET checked == CheckPkey(id, seq + 1)
           done == [NoCrud EXCEPT !.op = "insert", !.id = id, !.title = title,
                                  !.before = rows]
       IN IF ValidateRaises(title) \/ InsertRaises(checked)
          THEN /\ lastCrud' = [done EXCEPT !.outcome = "raised"]
               /\ UNCHANGED <<rows, seq>>
          ELSE /\ InsertedKey(checked) <= MaxKey
               /\ rows' = [k \in DOMAIN rows \cup {InsertedKey(checked)} |->
                              IF k = InsertedKey(checked) THEN title ELSE rows[k]]
               /\ seq' = IF InsertedKey(checked) > seq THEN InsertedKey(checked) ELSE seq
               /\ lastCrud' = [done EXCEPT !.outcome = "returned",
                                           !.result = AdapterInsertResult(checked),
                                           !.created = InsertedKey(checked)]
    /\ UNCHANGED pkType
    /\ UNCHANGED notCrudVars

\* table.delete(record) called by the application
Delete(id) ==
    /\ ~InStack(triggerStack[MainThread], TriggerId(BookTable, "delete"))
    /\ IF id = Omitted
       THEN /\ lastCrud' = [NoCrud EXCEPT !.op = "delete", !.id = id, !.before = rows,
                                          !.outcome = "raised"]
            /\ UNCHANGED rows
       ELSE /\ rows' = DeleteRows(rows, id)
            /\ lastCrud' = [NoCrud EXCEPT !.op = "delete", !.id = id, !.before = rows,
                                          !.outcome = "returned"]
    /\ UNCHANGED <<pkType, seq>>
    /\ UNCHANGED notCrudVars

\* table.get(pk) called by the application
Get(pk) ==
    /\ lastCrud' = [NoCrud EXCEPT !.op = "get", !.id = pk, !.before = rows,
                                  !.outcome = IF GetResult(rows, pk).raises = "none"
                                              THEN "returned" ELSE "KeyError",
                                  !.result = GetResult(rows, pk).id,
                                  !.title = GetResult(rows, pk).title]
    /\ UNCHANGED <<pkType, rows, seq>>
    /\ UNCHANGED notCrudVars

CrudInit ==
    /\ pkType = "L"
    /\ rows = NoRows
    /\ seq = 0
    /\ lastCrud = NoCrud

-----------------------------------------------------------------------------
(* Table.add_column and DatabaseAdapter.migrate with the SQLite adapter   *)

MaxRows == 1

Pkey == "id"

\* a Column: logical name, SQL name, NOT NULL
Col(name, sqlName, notNull) == [name |-> name, sql_name |-> sqlName, not_null |-> notNull]

\* the columns of the Columns dataclass: id: int, title: str
DataclassColumns == <<Col("id", "id", TRUE), Col("title", "title", TRUE)>>

\* the tables an earlier version of the schema left in the database file
EarlierTables == {<<"id", "title">>, <<"id", "title", "old">>, <<"id", "old">>}

LogicalNames(cols) == {cols[i].name : i \in 1..Len(cols)}

SqlNames(cols) == {cols[i].sql_name : i \in 1..Len(cols)}

\* self.columns[name] = Column(...): a new key is appended, a present key
\* keeps its place and gets the new definition
AddColumnTo(cols, c) ==
    IF c.name \in LogicalNames(cols)
    THEN [i \in 1..Len(cols) |-> IF cols[i].name = c.name THEN c ELSE cols[i]]
    ELSE Append(cols, c)

RECURSIVE SelectSeq2(_, _, _)
\* the elements of a sequence whose given field is in a set, in order
SelectSeq2(cols, names, byLogical) ==
    IF cols = <<>> THEN <<>>
    ELSE LET c == Head(cols)
             rest == SelectSeq2(Tail(cols), names, byLogical)
         IN IF (IF byLogical THEN c.name ELSE c.sql_name) \in names
            THEN <<c>> \o rest ELSE rest

RECURSIVE KeepNames(_, _)
\* [col for col in current_schema.keys() if col not in columns]
KeepNames(current, drop) ==
    IF current = <<>> THEN <<>>
    ELSE IF Head(current) \in drop THEN KeepNames(Tail(current), drop)
         ELSE <<Head(current)>> \o KeepNames(Tail(current), drop)

SqlNameSeq(cols) == [i \in 1..Len(cols) |-> cols[i].sql_name]

HasDuplicates(names) == Cardinality(Range(names)) # Len(names)

Stmt(kind, col) == [kind |-> kind, col |-> col]

\* the columns migrate adds: for col_name in desired_schema, if col_name not
\* in current_schema (logical names against database column names)
MissingColumns(cols, current) ==
    SelectSeq2(cols, LogicalNames(cols) \ Range(current), TRUE)

\* columns_to_drop = set(current_schema.keys()) - set(desired_schema.keys())
ColumnsToDrop(cols, current) == Range(current) \ LogicalNames(cols)

RECURSIVE AddColumns(_, _, _, _)
\* the loop of ALTER TABLE ADD COLUMN statements: the state after it, or after
\* the statement that raised "duplicate column name"
AddColumns(todo, cols, rws, done) ==
    IF todo = <<>> THEN [raised |-> FALSE, cols |-> cols, rows |-> rws, done |-> done]
    ELSE LET n == Head(todo).sql_name
         IN IF n \in Range(cols)
            THEN [raised |-> TRUE, cols |-> cols, rows |-> rws, done |-> done]
            ELSE AddColumns(Tail(todo), Append(cols, n),
                            [i \in 1..Len(rws) |->
                                [x \in DOMAIN rws[i] \cup {n} |->
                                    IF x = n THEN "NULL" ELSE rws[i][x]]],
                            Append(done, Stmt("ADD COLUMN", n)))

DropColumnsDropFirst(cols, current, rws, temp, drop) ==
    LET keep == KeepNames(current, drop)
        tempNames == SqlNameSeq(SelectSeq2(cols, Range(keep), TRUE))
    IN IF temp \/ tempNames = <<>>
       THEN [raised |-> TRUE, cols |-> current, rows |-> rws, temp |-> temp,
             done |-> <<>>]
       ELSE [raised |-> TRUE, cols |-> tempNames, rows |-> <<>>, temp |-> TRUE,
             done |-> <<Stmt("CREATE TEMP", ""), Stmt("DROP TABLE", "")>>]

\* SQLiteAdapter._drop_columns: the state after it, or after the statement
\* that raised
DropColumns(cols, current, rws, temp, drop) ==
    LET keep == KeepNames(current, drop)
        tempColumns == SelectSeq2(cols, Range(keep), TRUE)
        tempNames == SqlNameSeq(tempColumns)
        createRaises == temp \/ tempColumns = <<>> \/ HasDuplicates(tempNames)
        notNull == {tempColumns[i].sql_name : i \in
                       {j \in 1..Len(tempColumns) :
                           tempColumns[j].not_null /\ tempColumns[j].name # Pkey}}
        copied == [i \in 1..Len(rws) |->
                      [x \in Range(tempNames) |->
                          IF x \in Range(keep) THEN rws[i][x] ELSE "NULL"]]
        copyRaises ==
            \/ ~(Range(keep) \subseteq Range(tempNames))
            \/ \E i \in 1..Len(rws) : \E x \in notNull :
                  IF x \in Range(keep) THEN rws[i][x] = "NULL" ELSE TRUE
    IN IF createRaises
       THEN [raised |-> TRUE, cols |-> current, rows |-> rws, temp |-> temp,
             done |-> <<>>]
       ELSE IF copyRaises
       THEN [raised |-> TRUE, cols |-> current, rows |-> rws, temp |-> TRUE,
             done |-> <<Stmt("CREATE TEMP", "")>>]
       ELSE [raised |-> FALSE, cols |-> tempNames, rows |-> copied, temp |-> FALSE,
             done |-> <<Stmt("CREATE TEMP", ""), Stmt("COPY", ""),
                        Stmt("DROP TABLE", ""), Stmt("RENAME", "")>>]

NoMig == [op |-> "init", drop |-> FALSE, outcome |-> "none", returned |-> <<>>,
          executed |-> <<>>, existed |-> FALSE, cols |-> <<>>, rows |-> <<>>,
          prev |-> [op |-> "init", outcome |-> "none", drop |-> FALSE]]

\* table.add_column(name, dtype, sql_name=..., not_null=...)
AddColumn(name, sqlName, notNull) ==
    /\ columns' = AddColumnTo(columns, Col(name, sqlName, notNull))
    /\ lastMig' = [NoMig EXCEPT !.op = "add_column"]
    /\ UNCHANGED <<dbExists, dbCols, dbRows, tempExists>>
    /\ UNCHANGED notMigVars

\* a row with a value in every column is written to the table
InsertRow ==
    /\ dbExists
    /\ Len(dbRows) < MaxRows
    /\ dbRows' = Append(dbRows, [x \in Range(dbCols) |-> "v"])
    /\ lastMig' = [NoMig EXCEPT !.op = "insert"]
    /\ UNCHANGED <<columns, dbExists, dbCols, tempExists>>
    /\ UNCHANGED notMigVars

\* table.migrate(drop_columns): DatabaseAdapter.migrate with SQLiteAdapter
Migrate(drop) ==
    LET start == [NoMig EXCEPT !.op = "migrate", !.drop = drop, !.existed = dbExists,
                               !.cols = dbCols, !.rows = dbRows,
                               !.prev = [op |-> lastMig.op, outcome |-> lastMig.outcome,
                                         drop |-> lastMig.drop]]
    IN
    /\ IF ~dbExists
       THEN IF HasDuplicates(SqlNameSeq(columns))
            THEN /\ lastMig' = [start EXCEPT !.outcome = "raised"]
                 /\ UNCHANGED <<dbExists, dbCols, dbRows, tempExists>>
            ELSE /\ dbExists' = TRUE
                 /\ dbCols' = SqlNameSeq(columns)
                 /\ dbRows' = <<>>
                 /\ lastMig' = [start EXCEPT !.outcome = "returned",
                                             !.returned = <<Stmt("CREATE TABLE", "")>>,
                                             !.executed = <<Stmt("CREATE TABLE", "")>>]
                 /\ UNCHANGED tempExists
       ELSE LET added == AddColumns(MissingColumns(columns, dbCols), dbCols, dbRows, <<>>)
                toDrop == IF drop THEN ColumnsToDrop(columns, dbCols) ELSE {}
                dropped == DropColumns(columns, added.cols, added.rows, tempExists, toDrop)
            IN IF added.raised \/ toDrop = {}
               THEN /\ dbCols' = added.cols
                    /\ dbRows' = added.rows
                    /\ lastMig' = [start EXCEPT
                          !.outcome = IF added.raised THEN "raised" ELSE "returned",
                          !.returned = IF added.raised THEN <<>> ELSE added.done,
                          !.executed = added.done]
                    /\ UNCHANGED <<dbExists, tempExists>>
               ELSE /\ dbCols' = dropped.cols
                    /\ dbRows' = dropped.rows
                    /\ tempExists' = dropped.temp
                    /\ lastMig' = [start EXCEPT
                          !.outcome = IF dropped.raised THEN "raised" ELSE "returned",
                          !.returned = IF dropped.raised THEN <<>>
                                       ELSE added.done \o dropped.done,
                          !.executed = added.done \o dropped.done]
                    /\ UNCHANGED dbExists
    /\ UNCHANGED columns
    /\ UNCHANGED notMigVars

MigInit ==
    /\ columns = DataclassColumns
    /\ dbExists = FALSE
    /\ dbCols = <<>>
    /\ dbRows = <<>>
    /\ tempExists = FALSE
    /\ lastMig = NoMig

-----------------------------------------------------------------------------
(* apiready: the method decorator of decorators/api.py and of             *)
(* enablers/api_publisher_enabler.py                                       *)
(*                                                                         *)
(* A function is [name, params]; a parameter is [name, hint, default] with *)
(* hint "none" for a parameter without annotation and default "empty" for  *)
(* inspect.Parameter.empty. Names are strings; NameChars gives their       *)
(* characters, on which str.startswith is computed.                        *)

NameChars ==
    [read_text |-> <<"r", "e", "a", "d", "_", "t", "e", "x", "t">>,
     get_metadata |-> <<"g", "e", "t", "_", "m", "e", "t", "a", "d", "a", "t", "a">>,
     list |-> <<"l", "i", "s", "t">>,
     exists |-> <<"e", "x", "i", "s", "t", "s">>,
     is_dir |-> <<"i", "s", "_", "d", "i", "r">>,
     isdir |-> <<"i", "s", "d", "i", "r">>,
     has_key |-> <<"h", "a", "s", "_", "k", "e", "y">>,
     write_bytes |-> <<"w", "r", "i", "t", "e", "_", "b", "y", "t", "e", "s">>,
     ge |-> <<"g", "e">>]

FunctionNames == DOMAIN NameChars

\* func_name.startswith(prefix)
StartsWith(chars, prefix) ==
    Len(prefix) <= Len(chars) /\ SubSeq(chars, 1, Len(prefix)) = prefix

GetPrefixesReadGetList ==
    {<<"r", "e", "a", "d">>, <<"g", "e", "t">>, <<"l", "i", "s", "t">>}

\* ["read", "get", "list", "exists", "is_", "has_"]
GetPrefixes ==
    {<<"r", "e", "a", "d">>, <<"g", "e", "t">>, <<"l", "i", "s", "t">>,
     <<"e", "x", "i", "s", "t", "s">>, <<"i", "s", "_">>, <<"h", "a", "s", "_">>}

\* the method argument of apiready; "None" is the default
MethodArgs == {"None", "GET", "POST"}

\* http_method = method, inferred from the name if method is None
HttpMethod(name, method) ==
    IF method # "None" THEN method
    ELSE IF \E prefix \in GetPrefixes : StartsWith(NameChars[name], prefix)
         THEN "GET" ELSE "POST"

\* the path argument of apiready; "None" is the default
PathChars ==
    ("/custom" :> <<"/", "c", "u", "s", "t", "o", "m">>) @@
    ("files" :> <<"f", "i", "l", "e", "s">>)

PathArgs == {"None"} \cup DOMAIN PathChars

\* endpoint_path = path if path is not None else "/" + name, with a leading
\* "/" put in front if it has none
EndpointPath(name, path) ==
    IF path = "None" THEN <<"/">> \o NameChars[name]
    ELSE IF StartsWith(PathChars[path], <<"/">>) THEN PathChars[path]
         ELSE <<"/">> \o PathChars[path]

Param(name, hint, default) == [name |-> name, hint |-> hint, default |-> default]

\* the signatures of the functions that are decorated
Signatures ==
    {<<>>,
     <<Param("self", "none", "empty"), Param("path", "str", "empty"),
       Param("encoding", "str", "utf-8")>>,
     <<Param("cls", "none", "empty"), Param("n", "int", "None")>>,
     <<Param("self", "none", "empty"), Param("data", "none", "empty"),
       Param("ref", "unresolved", "empty")>>,
     <<Param("x", "none", "d")>>}

ReturnHints == {"none", "str"}

\* type_hints.get(name, Any)
HintOrAny(hint) == IF hint = "none" THEN "Any" ELSE hint

RequestFieldsWithSelf(params) ==
    [n \in {params[i].name : i \in 1..Len(params)} |->
        LET p == CHOOSE q \in Range(params) : q.name = n
        IN <<HintOrAny(p.hint), IF p.default = "empty" THEN "Ellipsis" ELSE p.default>>]

\* request_fields: the loop over sig.parameters
RequestFields(params) ==
    [n \in {params[i].name : i \in 1..Len(params)} \ {"self", "cls"} |->
        LET p == CHOOSE q \in Range(params) : q.name = n
        IN <<HintOrAny(p.hint), IF p.default = "empty" THEN "Ellipsis" ELSE p.default>>]

Variants == {"decorators", "enablers"}

\* get_type_hints(f) raises NameError for an annotation it cannot resolve;
\* the enablers' decorator catches it and uses the raw annotations
DecoratorRaises(variant, f) ==
    /\ variant = "decorators"
    /\ \/ f.returns = "unresolved"
       \/ \E i \in 1..Len(f.params) : f.params[i].hint = "unresolved"

TransactionAlwaysFalse(variant, transaction) ==
    IF variant = "enablers" THEN ("transaction" :> FALSE) ELSE EmptyDict

\* the "transaction" entry, which only the enablers' decorator stores
TransactionEntry(variant, transaction) ==
    IF variant = "enablers" THEN ("transaction" :> transaction) ELSE EmptyDict

\* f._api_metadata as method_decorator stores it
ApiMetadata(variant, f, path, method, transaction) ==
    [request_fields |-> RequestFields(f.params),
     return_type |-> HintOrAny(f.returns),
     http_method |-> HttpMethod(f.name, method),
     endpoint_path |-> EndpointPath(f.name, path)]
    @@ TransactionEntry(variant, transaction)

\* hasattr(f, '_api_metadata')
HasMetadata(f) == DOMAIN f.meta # {}

NoApi == [op |-> "init", variant |-> "decorators", path |-> "None", method |-> "None",
          transaction |-> FALSE, raised |-> FALSE,
          target |-> "c1", isInstance |-> FALSE, eager |-> FALSE, mode |-> "dict",
          error |-> "none", result |-> EmptyDict]

\* def name(params) -> returns: a function without metadata
DefFunction(name, params, returns) ==
    /\ func' = [name |-> name, params |-> params, returns |-> returns, meta |-> EmptyDict]
    /\ lastApi' = [NoApi EXCEPT !.op = "def"]
    /\ UNCHANGED classes
    /\ UNCHANGED notApiVars

\* @apiready(path=..., method=..., transaction=...) applied to the function
ApiReady(variant, path, method, transaction) ==
    /\ variant = "decorators" => ~transaction
    /\ lastApi' = [NoApi EXCEPT !.op = "apiready", !.variant = variant, !.path = path,
                                !.method = method, !.transaction = transaction,
                                !.raised = DecoratorRaises(variant, func)]
    /\ IF DecoratorRaises(variant, func)
       THEN UNCHANGED func
       ELSE func' = [func EXCEPT !.meta = ApiMetadata(variant, func, path, method, transaction)]
    /\ UNCHANGED classes
    /\ UNCHANGED notApiVars

-----------------------------------------------------------------------------
(* Classes: the class statement with its members and the class decorator  *)
(*                                                                         *)
(* A class is [defined, name, module, base, basePath, members, attrs]:     *)
(* basePath is its own _api_base_path ("None" if it has none), members its *)
(* own functions by name, attrs the public attributes of its instances.    *)

MaxMembers == 2

ClassIds == {"c1", "c2", "c3"}

MemberKinds == {"function", "staticmethod", "classmethod"}

\* order is the position of the class statement among those completed
NoClass == [defined |-> FALSE, name |-> "Library", module |-> "m1", base |-> "object",
            basePath |-> "None", members |-> EmptyDict, attrs |-> EmptyDict,
            order |-> 0]

RECURSIVE Mro(_)
\* the class and its bases, in method resolution order
Mro(c) == IF c = "object" THEN <<>> ELSE <<c>> \o Mro(classes[c].base)

\* getattr(cls, '_api_base_path', None): the first one along the bases
ClassBasePath(c) ==
    LET marked == SelectSeq(Mro(c), LAMBDA x : classes[x].basePath # "None")
    IN IF marked = <<>> THEN "None" ELSE classes[Head(marked)].basePath

\* hasattr(cls, '_api_base_path')
HasBasePath(c) == ClassBasePath(c) # "None"

\* the names of the members of a class, inherited ones included
MemberNames(c) == UNION {DOMAIN classes[x].members : x \in Range(Mro(c))}

\* getattr(cls, name): the member of the first class along the bases that has it
Member(c, n) ==
    classes[Head(SelectSeq(Mro(c), LAMBDA x : n \in DOMAIN classes[x].members))].members[n]

\* the function, decorated or not, becomes a member of the class body that
\* is being executed
AddMember(c, kind) ==
    /\ ~classes[c].defined
    /\ func.name \in DOMAIN classes[c].members
          \/ Cardinality(DOMAIN classes[c].members) < MaxMembers
    /\ classes' = [classes EXCEPT ![c].members =
           DictSet(@, func.name, [kind |-> kind, meta |-> func.meta])]
    /\ lastApi' = [NoApi EXCEPT !.op = "member"]
    /\ UNCHANGED func
    /\ UNCHANGED notApiVars

\* the class statement completes: the class is created from its body and the
\* class decorator, if there is one, is applied (class_decorator raises
\* ValueError if path is None, and the class is not bound)
ClassStatement(c, name, module, baseId, path) ==
    /\ ~classes[c].defined
    /\ IF baseId = "object" THEN TRUE ELSE classes[baseId].defined
    /\ \A x \in ClassIds :
          classes[x].defined => ~(classes[x].name = name /\ classes[x].module = module)
    /\ IF path = "None"
       THEN /\ lastApi' = [NoApi EXCEPT !.op = "class", !.path = path, !.raised = TRUE]
            /\ UNCHANGED classes
       ELSE /\ lastApi' = [NoApi EXCEPT !.op = "class", !.path = path]
            /\ classes' = [classes EXCEPT ![c] =
                  [@ EXCEPT !.defined = TRUE, !.name = name, !.module = module,
                            !.base = baseId,
                            !.order = Cardinality({x \in ClassIds : classes[x].defined}) + 1,
                            !.basePath = IF path = "NoDecorator" THEN "None" ELSE path]]
    /\ UNCHANGED func
    /\ UNCHANGED notApiVars

-----------------------------------------------------------------------------
(* get_api_structure of introspection.py and of PublisherBridge           *)

MaxRecursion == 5

CharCode ==
    ("/" :> 47) @@ ("_" :> 95) @@ ("a" :> 97) @@ ("b" :> 98) @@ ("c" :> 99) @@
    ("d" :> 100) @@ ("e" :> 101) @@ ("f" :> 102) @@ ("g" :> 103) @@ ("h" :> 104) @@
    ("i" :> 105) @@ ("k" :> 107) @@ ("l" :> 108) @@ ("m" :> 109) @@ ("o" :> 111) @@
    ("r" :> 114) @@ ("s" :> 115) @@ ("t" :> 116) @@ ("u" :> 117) @@ ("v" :> 118) @@
    ("w" :> 119) @@ ("x" :> 120) @@ ("y" :> 121)

RECURSIVE CharsLess(_, _)
\* a < b for two str values
CharsLess(a, b) ==
    IF b = <<>> THEN FALSE
    ELSE IF a = <<>> THEN TRUE
    ELSE IF CharCode[Head(a)] < CharCode[Head(b)] THEN TRUE
    ELSE IF CharCode[Head(a)] > CharCode[Head(b)] THEN FALSE
    ELSE CharsLess(Tail(a), Tail(b))

RECURSIVE SortedBy(_, _)
\* the elements of a set of names in ascending order of their characters
SortedBy(names, chars) ==
    IF names = {} THEN <<>>
    ELSE LET m == CHOOSE x \in names :
                     \A y \in names \ {x} : CharsLess(chars[x], chars[y])
         IN <<m>> \o SortedBy(names \ {m}, chars)

RECURSIVE InsertByPath(_, _)
InsertByPath(sorted, e) ==
    IF sorted = <<>> THEN <<e>>
    ELSE IF CharsLess(e.path, Head(sorted).path) THEN <<e>> \o sorted
    ELSE <<Head(sorted)>> \o InsertByPath(Tail(sorted), e)

RECURSIVE SortByPath(_)
\* endpoints.sort(key=lambda x: x["path"]): a stable sort
SortByPath(endpoints) ==
    IF endpoints = <<>> THEN <<>>
    ELSE InsertByPath(SortByPath(SubSeq(endpoints, 1, Len(endpoints) - 1)),
                      endpoints[Len(endpoints)])

\* inspect.isfunction: true of a function and of a staticmethod looked up on
\* the class, false of the bound method a classmethod gives
IsFunction(member) == member.kind \in {"function", "staticmethod"}

IntrospectionVariants == {"introspection", "bridge"}

\* the endpoint entry of a member
Endpoint(variant, name, meta) ==
    [path |-> meta.endpoint_path, method |-> meta.http_method, function_name |-> name]
    @@ (IF variant = "bridge"
        THEN ("transaction" :> (IF "transaction" \in DOMAIN meta
                                THEN meta.transaction ELSE FALSE))
        ELSE EmptyDict)

\* the loop over inspect.getmembers(target, inspect.isfunction), which yields
\* the members in ascending order of their names, and the sort
Endpoints(variant, c) ==
    LET names == SortedBy({n \in MemberNames(c) :
                              IsFunction(Member(c, n)) /\ HasMetadata(Member(c, n))},
                          NameChars)
    IN SortByPath([i \in 1..Len(names) |->
                      Endpoint(variant, names[i], Member(c, names[i]).meta)])

AttrChars ==
    [books |-> <<"b", "o", "o", "k", "s">>,
     shelves |-> <<"s", "h", "e", "l", "v", "e", "s">>,
     _cache |-> <<"_", "c", "a", "c", "h", "e">>]

AttrNames == DOMAIN AttrChars

\* the classes bound in the module of a class, in the order of vars(module)
ModuleClasses(c) ==
    LET ids == {x \in ClassIds : classes[x].defined /\ classes[x].module = classes[c].module}
        RECURSIVE ByOrder(_)
        ByOrder(S) == IF S = {} THEN <<>>
                      ELSE LET m == CHOOSE x \in S :
                                       \A y \in S : classes[x].order <= classes[y].order
                           IN <<m>> \o ByOrder(S \ {m})
    IN ByOrder(ids)

\* the public names of dir(instance) that hold an object, in the ascending
\* order dir() gives (name.startswith('_') skips the others)
PublicAttrs(c) ==
    SortedBy({a \in DOMAIN classes[c].attrs : Head(AttrChars[a]) # "_"}, AttrChars)

SeenClasses(children) == {children[i].class_name : i \in 1..Len(children)}

RECURSIVE Structure(_, _, _, _, _)
RECURSIVE AttrChildren(_, _, _, _, _)
RECURSIVE ModuleChildren(_, _, _, _, _)

\* loop 1 of the eager branch: the objects held by the public attributes of
\* the instance; the bare except skips an attribute whose structure raised
AttrChildren(variant, c, names, children, depth) ==
    IF names = <<>> THEN children
    ELSE LET a == classes[c].attrs[Head(names)]
         IN IF ~HasBasePath(a)
            THEN AttrChildren(variant, c, Tail(names), children, depth)
            ELSE LET child == Structure(variant, a, TRUE, TRUE, depth - 1)
                 IN IF child.raised
                    THEN AttrChildren(variant, c, Tail(names), children, depth)
                    ELSE IF child.structure.class_name \in SeenClasses(children)
                    THEN AttrChildren(variant, c, Tail(names), children, depth)
                    ELSE AttrChildren(variant, c, Tail(names),
                                      Append(children, child.structure), depth)

\* loop 2 of the eager branch: the marked classes of the module of the
\* target; an exception leaves the loop with the children found so far
ModuleChildren(variant, c, objs, children, depth) ==
    IF objs = <<>> THEN children
    ELSE LET obj == Head(objs)
         IN IF ~HasBasePath(obj) \/ obj = c
               \/ classes[obj].name \in SeenClasses(children)
            THEN ModuleChildren(variant, c, Tail(objs), children, depth)
            ELSE LET child == Structure(variant, obj, FALSE, FALSE, depth - 1)
                 IN IF child.raised THEN children
                    ELSE ModuleChildren(variant, c, Tail(objs),
                                        Append(children, child.structure), depth)

\* the dict get_api_structure builds for a marked class before it formats
\* it; depth is the room left on the interpreter's stack (RecursionError
\* when there is none)
Structure(variant, c, isInstance, eager, depth) ==
    IF depth = 0 THEN [raised |-> TRUE, structure |-> EmptyDict]
    ELSE LET fromAttrs == IF isInstance
                          THEN AttrChildren(variant, c, PublicAttrs(c), <<>>, depth)
                          ELSE <<>>
             children == ModuleChildren(variant, c, ModuleClasses(c), fromAttrs, depth)
         IN [raised |-> FALSE,
             structure |->
                 [class_name |-> classes[c].name,
                  base_path |-> ClassBasePath(c),
                  endpoints |-> Endpoints(variant, c)]
                 @@ (IF eager
                     THEN IF children # <<>> THEN ("children" :> children) ELSE EmptyDict
                     ELSE EmptyDict)]

Modes == {"json", "JSON", "yaml", "markdown", "md", "html", "dict"}

\* mode.lower()
Lower(mode) == IF mode = "JSON" THEN "json" ELSE mode

\* the branch of the format chain that is taken
OutputFormat(mode) ==
    IF Lower(mode) \in {"json", "yaml", "html"} THEN Lower(mode)
    ELSE IF Lower(mode) \in {"markdown", "md"} THEN "markdown"
    ELSE "dict"

\* what of the structure the output carries: json.dumps and yaml.dump write
\* every key, _format_as_markdown writes the class and its endpoints only,
\* and so does the bridge's _format_as_html, while _format_as_html of
\* introspection.py also writes the children but not theirs
Rendered(variant, format, structure) ==
    LET top == [k \in DOMAIN structure \ {"children"} |-> structure[k]]
    IN IF format = "markdown" \/ (format = "html" /\ variant = "bridge") THEN top
       ELSE IF format = "html" /\ "children" \in DOMAIN structure
       THEN top @@ ("children" :>
                [i \in 1..Len(structure.children) |->
                    [k \in DOMAIN structure.children[i] \ {"children"} |->
                        structure.children[i][k]]])
       ELSE structure

\* the number of levels of a structure: 1 without children
RECURSIVE Levels(_)
Levels(structure) ==
    IF "children" \notin DOMAIN structure THEN 1
    ELSE LET below == {Levels(structure.children[i]) : i \in 1..Len(structure.children)}
         IN 1 + CHOOSE n \in below : \A k \in below : k <= n

\* json.dumps and yaml.dump descend into the children on the interpreter's
\* stack: a structure that the walk built as deep as the stack allowed
\* makes them raise RecursionError
DumpOverflows(format, structure) ==
    format \in {"json", "yaml"} /\ Levels(structure) >= MaxRecursion

ApiErrorOwnPath(c, mode, yamlInstalled) ==
    IF classes[c].basePath = "None" THEN "ValueError"
    ELSE IF OutputFormat(mode) = "yaml" /\ ~yamlInstalled THEN "ImportError"
    ELSE "none"

\* the exception get_api_structure raises: ValueError from the hasattr
\* check, ImportError from the yaml branch
ApiError(c, mode, yamlInstalled) ==
    IF ~HasBasePath(c) THEN "ValueError"
    ELSE IF OutputFormat(mode) = "yaml" /\ ~yamlInstalled THEN "ImportError"
    ELSE "none"

\* get_api_structure(target, eager=..., mode=...): target is the class c or
\* an instance of it; yamlInstalled tells whether import yaml succeeds
GetApiStructure(variant, c, isInstance, eager, mode, yamlInstalled) ==
    /\ classes[c].defined
    /\ LET early == ApiError(c, mode, yamlInstalled)
           structure == Structure(variant, c, isInstance, eager, MaxRecursion).structure
           error == IF early # "none" THEN early
                    ELSE IF DumpOverflows(OutputFormat(mode), structure)
                    THEN "RecursionError"
                    ELSE "none"
       IN lastApi' = [NoApi EXCEPT
              !.op = "get_api_structure", !.variant = variant, !.target = c,
              !.isInstance = isInstance, !.eager = eager, !.mode = mode,
              !.error = error, !.raised = (error # "none"),
              !.result = IF error = "none"
                         THEN Rendered(variant, OutputFormat(mode), structure)
                         ELSE EmptyDict]
    /\ UNCHANGED <<func, classes>>
    /\ UNCHANGED notApiVars

\* self.name = instance of class x, in the __init__ of class c
SetAttr(c, a, x) ==
    /\ classes[c].defined
    /\ classes[x].defined
    /\ classes' = [classes EXCEPT ![c].attrs = DictSet(@, a, x)]
    /\ lastApi' = [NoApi EXCEPT !.op = "setattr"]
    /\ UNCHANGED func
    /\ UNCHANGED notApiVars

ApiInit ==
    /\ func = [name |-> "read_text", params |-> <<>>, returns |-> "none", meta |-> EmptyDict]
    /\ classes = [c \in ClassIds |-> NoClass]
    /\ lastApi = NoApi

-----------------------------------------------------------------------------
(* Spec: one thread, with-blocks that pass any of two keys                 *)

-----------------------------------------------------------------------------
(* GenroMicroApplication: add_db and db                                    *)

MaxDbs == 3

\* names a database is added under: two ordinary ones and three that are
\* also attributes of the application
AppNames == {"maindb", "logdb", "db", "add_db", "_databases"}

NoApp == [op |-> "init", name |-> "maindb", error |-> "none", result |-> 0]

\* self._databases: the dict of __init__, unless setattr put a GenroMicroDb
\* under that name
DatabasesIsDict == "_databases" \notin DOMAIN appDict

\* setattr(self, name, db)
SetDbAttr(d, name, db) == DictSet(d, name, db)

\* app.add_db(name, ...): withTarget tells whether a connection string or
\* an implementation is passed (GenroMicroDb.__init__ raises ValueError
\* without)
AddDb(name, withTarget) ==
    /\ dbCount < MaxDbs
    /\ IF "add_db" \in DOMAIN appDict
       THEN \* app.add_db is a GenroMicroDb: not callable
            /\ lastApp' = [NoApp EXCEPT !.op = "add_db", !.name = name, !.error = "TypeError"]
            /\ UNCHANGED <<appDatabases, appDict, dbCount, returned>>
       ELSE IF ~withTarget
       THEN /\ lastApp' = [NoApp EXCEPT !.op = "add_db", !.name = name, !.error = "ValueError"]
            /\ UNCHANGED <<appDatabases, appDict, dbCount, returned>>
       ELSE IF ~DatabasesIsDict
       THEN \* self._databases[name] = db on a GenroMicroDb
            /\ lastApp' = [NoApp EXCEPT !.op = "add_db", !.name = name, !.error = "TypeError"]
            /\ dbCount' = dbCount + 1
            /\ UNCHANGED <<appDatabases, appDict, returned>>
       ELSE /\ dbCount' = dbCount + 1
            /\ appDatabases' = DictSet(appDatabases, name, dbCount + 1)
            /\ appDict' = SetDbAttr(appDict, name, dbCount + 1)
            /\ returned' = DictSet(returned, name, dbCount + 1)
            /\ lastApp' = [NoApp EXCEPT !.op = "add_db", !.name = name, !.result = dbCount + 1]
    /\ UNCHANGED notAppVars

\* app.db(name)
Db(name) ==
    /\ lastApp' =
          IF "db" \in DOMAIN appDict
          THEN \* app.db is a GenroMicroDb: not callable
               [NoApp EXCEPT !.op = "db", !.name = name, !.error = "TypeError"]
          ELSE IF ~DatabasesIsDict
          THEN \* name not in self._databases on a GenroMicroDb
               [NoApp EXCEPT !.op = "db", !.name = name, !.error = "TypeError"]
          ELSE IF name \notin DOMAIN appDatabases
          THEN [NoApp EXCEPT !.op = "db", !.name = name, !.error = "KeyError"]
          ELSE [NoApp EXCEPT !.op = "db", !.name = name, !.result = appDatabases[name]]
    /\ UNCHANGED <<appDatabases, appDict, dbCount, returned>>
    /\ UNCHANGED notAppVars

AppInit ==
    /\ appDatabases = EmptyDict
    /\ appDict = EmptyDict
    /\ dbCount = 0
    /\ returned = EmptyDict
    /\ lastApp = NoApp

NextApp ==
    \/ \E name \in AppNames, withTarget \in BOOLEAN : AddDb(name, withTarget)
    \/ \E name \in AppNames : Db(name)

-----------------------------------------------------------------------------
(* GenroMicroCompiler.compile_select                                       *)

\* self.templates
Templates == {"order_by", "group_by", "limit", "offset"}

\* the names n for which hasattr(self, 'compile_' + n) holds: the methods
\* compile_columns, compile_where, compile_select, compile_insert,
\* compile_update and compile_delete
CompileMethods == {"columns", "where", "select", "insert", "update", "delete"}

\* keyword names of a call: clauses, and parameters of the where clause
KwNames == {"columns", "where", "limit", "g", "min_pages", "select"}

KwValues == {"None", "$title"}

ClauseOrder == <<"where", "group_by", "order_by", "limit", "offset">>

\* the test of the loop that separates clauses from parameters
IsClauseData(name) == name \in Templates \/ name \in CompileMethods

\* sql_params as the loop fills it
SqlParams(kwargs) == [n \in {x \in DOMAIN kwargs : ~IsClauseData(x)} |-> kwargs[n]]

\* the clauses of the statement in order, each with the text it was built
\* from: SELECT and FROM always, then those of clause_order whose value is
\* not None
SelectClauses(kwargs) ==
    LET clauseData == [n \in {x \in DOMAIN kwargs : IsClauseData(x)} |-> kwargs[n]]
    IN <<[clause |-> "columns", text |-> DictGet(clauseData, "columns")],
         [clause |-> "from", text |-> "books"]>>
       \o [i \in 1..Len(SelectSeq(ClauseOrder, LAMBDA n : DictGet(clauseData, n) # "None")) |->
              LET n == SelectSeq(ClauseOrder, LAMBDA x : DictGet(clauseData, x) # "None")[i]
              IN [clause |-> n, text |-> clauseData[n]]]

NoSelect == [op |-> "init", kwargs |-> EmptyDict, sql |-> <<>>, params |-> EmptyDict]

\* compiler.compile_select(**kwargs)
CompileSelect(kwargs) ==
    /\ lastSelect' = [op |-> "compile_select", kwargs |-> kwargs,
                      sql |-> SelectClauses(kwargs), params |-> SqlParams(kwargs)]
    /\ UNCHANGED notSelVars

SelInit == lastSelect = NoSelect

NextSelect == \E kwargs \in DictsOver(KwNames, KwValues) : CompileSelect(kwargs)

-----------------------------------------------------------------------------
(* GenroMicroDb: the lazy connection                                       *)

MaxConnections == 3
MaxTables == 2

\* the arguments of GenroMicroDb(name, connection_string=..., implementation=...,
\* path=...)
ConnectionStrings == {"None", "", "sqlite:///shop.db", "sqlite://", "postgresql://host/shop"}
Implementations == {"None", "sqlite", "postgresql"}
Paths == {"None", "shop.db"}

\* no GenroMicroDb yet
NoDb == [connection_string |-> "None", implementation |-> "None", path |-> "None",
         constructed |-> FALSE]

\* self._connection = None
NoConnection == [id |-> 0, path |-> "None"]

NoConn == [op |-> "init", error |-> "none", result |-> NoConnection,
           before |-> [connection |-> NoConnection, opened |-> 0, closedConns |-> {}]]

\* the truth value of an argument: None and the empty string are false
Truthy(x) == x \notin {"None", ""}

\* urlparse(connection_string): the scheme and the path
UrlParse(connection_string) ==
    IF connection_string = "sqlite:///shop.db" THEN [scheme |-> "sqlite", path |-> "/shop.db"]
    ELSE IF connection_string = "sqlite://" THEN [scheme |-> "sqlite", path |-> ""]
    ELSE [scheme |-> "postgresql", path |-> "/shop"]

\* parsed.path.lstrip('/')
LStripSlash(path) ==
    IF path = "/shop.db" THEN "shop.db" ELSE IF path = "/shop" THEN "shop" ELSE path

\* what the connection property does when there is no connection yet: the
\* path it hands to _connect_sqlite, the exception it raises, or neither
ConnectionTarget(params) ==
    IF Truthy(params.connection_string)
    THEN LET parsed == UrlParse(params.connection_string)
             db_path == LStripSlash(parsed.path)
         IN IF parsed.scheme = "sqlite"
            THEN [error |-> "none", connect |-> TRUE,
                  path |-> IF db_path = "" THEN ":memory:" ELSE db_path]
            ELSE [error |-> "NotImplementedError", connect |-> FALSE, path |-> "None"]
    ELSE IF Truthy(params.implementation)
    THEN IF params.implementation = "sqlite"
         THEN [error |-> "none", connect |-> TRUE,
               path |-> IF Truthy(params.path) THEN params.path ELSE ":memory:"]
         ELSE [error |-> "NotImplementedError", connect |-> FALSE, path |-> "None"]
    ELSE [error |-> "none", connect |-> FALSE, path |-> "None"]

NeedsConnectAlways(conn) == TRUE

\* if self._connection is None
NeedsConnect(conn) == conn = NoConnection

\* the record that carries the values before the call
ConnBefore == [connection |-> connection, opened |-> opened, closedConns |-> closedConns]

\* db = GenroMicroDb(name, connection_string=..., implementation=..., path=...)
Construct(connection_string, implementation, path) ==
    /\ ~connParams.constructed
    /\ IF ~Truthy(connection_string) /\ ~Truthy(implementation)
       THEN /\ lastConn' = [NoConn EXCEPT !.op = "construct", !.error = "ValueError",
                                          !.before = ConnBefore]
            /\ UNCHANGED connParams
       ELSE /\ connParams' = [connection_string |-> connection_string,
                              implementation |-> implementation, path |-> path,
                              constructed |-> TRUE]
            /\ lastConn' = [NoConn EXCEPT !.op = "construct", !.before = ConnBefore]
    /\ UNCHANGED <<connection, opened, closedConns, registered>>
    /\ UNCHANGED notConnVars

\* db.add_table(TableClass)
AddTable ==
    /\ connParams.constructed
    /\ registered < MaxTables
    /\ registered' = registered + 1
    /\ lastConn' = [NoConn EXCEPT !.op = "add_table", !.before = ConnBefore]
    /\ UNCHANGED <<connParams, connection, opened, closedConns>>
    /\ UNCHANGED notConnVars

\* db.connection
GetConnection ==
    /\ connParams.constructed
    /\ LET target == ConnectionTarget(connParams)
       IN IF ~NeedsConnect(connection)
          THEN /\ lastConn' = [NoConn EXCEPT !.op = "connection", !.result = connection,
                                             !.before = ConnBefore]
               /\ UNCHANGED <<connection, opened>>
          ELSE IF target.connect
          THEN /\ opened < MaxConnections
               /\ connection' = [id |-> opened + 1, path |-> target.path]
               /\ opened' = opened + 1
               /\ lastConn' = [NoConn EXCEPT !.op = "connection", !.result = connection',
                                             !.before = ConnBefore]
          ELSE /\ lastConn' = [NoConn EXCEPT !.op = "connection", !.error = target.error,
                                             !.before = ConnBefore]
               /\ UNCHANGED <<connection, opened>>
    /\ UNCHANGED <<connParams, closedConns, registered>>
    /\ UNCHANGED notConnVars

\* db.close()
Close ==
    /\ connParams.constructed
    /\ IF connection # NoConnection
       THEN /\ closedConns' = closedConns \cup {connection.id}
            /\ connection' = NoConnection
       ELSE UNCHANGED <<connection, closedConns>>
    /\ lastConn' = [NoConn EXCEPT !.op = "close", !.before = ConnBefore]
    /\ UNCHANGED <<connParams, opened, registered>>
    /\ UNCHANGED notConnVars

ConnInit ==
    /\ connParams = NoDb
    /\ connection = NoConnection
    /\ opened = 0
    /\ closedConns = {}
    /\ registered = 0
    /\ lastConn = NoConn

NextConn ==
    \/ \E cs \in ConnectionStrings, impl \in Implementations, path \in Paths :
          Construct(cs, impl, path)
    \/ AddTable
    \/ GetConnection
    \/ Close

-----------------------------------------------------------------------------
Init == EnvInit /\ TrigInit /\ CrudInit /\ MigInit /\ ComInit /\ ApiInit /\ AppInit /\ ConnInit /\ SelInit

SpecApp == Init /\ [][NextApp]_vars

SpecSelect == Init /\ [][NextSelect]_vars

SpecConn == Init /\ [][NextConn]_vars

Next ==
    \/ \E kwargs \in DictsOver(Keys, Values) \ {EmptyDict} :
           Depth(MainThread) < MaxBlocks /\ Enter(MainThread, kwargs)
    \/ Exit(MainThread)
    \/ Raise(MainThread)
    \/ Catch(MainThread)
    \/ \E k \in Keys, v \in Values : DirectSet(MainThread, k, v)
    \/ \E k \in Keys : DirectDel(MainThread, k)

Spec == Init /\ [][Next]_vars

-----------------------------------------------------------------------------
(* SpecNest: one thread, with-blocks nested on one key                     *)

NextNest ==
    \/ \E kwargs \in DictsOver(NestKeys, NestValues) \ {EmptyDict} :
           Depth(MainThread) < MaxNest /\ Enter(MainThread, kwargs)
    \/ Exit(MainThread)
    \/ Raise(MainThread)
    \/ Catch(MainThread)
    \/ \E k \in NestKeys, v \in NestValues : DirectSet(MainThread, k, v)
    \/ \E k \in NestKeys : DirectDel(MainThread, k)

SpecNest == Init /\ [][NextNest]_vars

-----------------------------------------------------------------------------
(* SpecThreads: threads that start, use their environment and end          *)

NextThreads ==
    \/ \E t \in Threads, i \in Idents : Start(t, i)
    \/ \E t \in Threads : Finish(t)
    \/ \E t \in Threads, kwargs \in DictsOver(NestKeys, Values) \ {EmptyDict} :
           Depth(t) < MaxBlocks /\ Enter(t, kwargs)
    \/ \E t \in Threads : Exit(t)
    \/ \E t \in Threads, k \in NestKeys, v \in Values : DirectSet(t, k, v)
    \/ \E t \in Threads, k \in NestKeys : DirectDel(t, k)

SpecThreads == Init /\ [][NextThreads]_vars

-----------------------------------------------------------------------------
(* SpecTrigger: wrapped calls of one thread, nested through trigger hooks  *)

NextTrigger ==
    \/ \E table \in TableInstances, method \in Methods : Call(MainThread, table, method)
    \/ StepDone(MainThread)
    \/ Return(MainThread)
    \/ StepRaise(MainThread)

SpecTrigger == Init /\ [][NextTrigger]_vars

\* the code of a trigger hook that makes one wrapped call, as
\* ProductTable.trigger_onInserting does: the hook has just been entered
HookNotYetCalled(t) ==
    IF CallDepth(t) = 0 THEN TRUE
    ELSE lastCall.op = "step" \/ (lastCall.op = "call" /\ lastCall.outcome = "entered")

\* Mutually recursive triggers: every trigger hook of insert may insert
\* once into any table, its own included
NextMutual ==
    \/ \E table \in TableInstances :
          /\ HookNotYetCalled(MainThread)
          /\ Call(MainThread, table, "insert")
    \/ StepDone(MainThread)
    \/ Return(MainThread)
    \/ StepRaise(MainThread)

\* a method that was entered runs on until it returns
SpecMutual ==
    /\ Init
    /\ [][NextMutual]_vars
    /\ WF_vars(StepDone(MainThread) \/ Return(MainThread))

-----------------------------------------------------------------------------
(* SpecCrud: inserts, deletes and gets on one table, whose primary key is *)
(* an integer or a text column                                             *)

InitCrud ==
    /\ EnvInit /\ TrigInit /\ MigInit /\ ComInit /\ ApiInit /\ AppInit /\ ConnInit /\ SelInit
    /\ pkType \in {"L", "T"}
    /\ rows = NoRows
    /\ seq = 0
    /\ lastCrud = NoCrud

NextCrud ==
    \/ \E id \in KeyInputs, title \in TitleInputs : Insert(id, title)
    \/ \E id \in KeyInputs : Delete(id)
    \/ \E pk \in KeyInputs \ {Omitted} : Get(pk)

SpecCrud == InitCrud /\ [][NextCrud]_vars

-----------------------------------------------------------------------------
(* SpecMigrate: column definitions change and the table is migrated; the  *)
(* database file is new or holds the table of an earlier schema            *)

InitMigrate ==
    /\ EnvInit /\ TrigInit /\ CrudInit /\ ComInit /\ ApiInit /\ AppInit /\ ConnInit /\ SelInit
    /\ columns = DataclassColumns
    /\ \/ dbExists = FALSE /\ dbCols = <<>>
       \/ dbExists = TRUE /\ dbCols \in EarlierTables
    /\ dbRows = <<>>
    /\ tempExists = FALSE
    /\ lastMig = NoMig

NextMigrate ==
    \/ \E name \in {"title", "isbn"}, sqlName \in {"ttl"}, notNull \in BOOLEAN :
          \/ AddColumn(name, name, notNull)
          \/ AddColumn(name, sqlName, notNull)
    \/ InsertRow
    \/ \E drop \in BOOLEAN : Migrate(drop)

SpecMigrate == InitMigrate /\ [][NextMigrate]_vars

-----------------------------------------------------------------------------
(* SpecCommit: wrapped methods, their triggers and the statements they   *)
(* execute and commit                                                      *)

MaxCommitDepth == 2

\* ProductTable, whose triggers write to AuditTable of the same database
CommitTables == {ti \in TableInstances : ti.db = "db1"}

CommitMethods == {"insert", "update"}

NextCommit ==
    \/ \E table \in CommitTables, method \in CommitMethods :
          CallDepth(MainThread) < MaxCommitDepth /\ Call(MainThread, table, method)
    \/ StepDone(MainThread) /\ CurrentStep(MainThread) \notin AdapterSteps
    \/ \E runs \in BOOLEAN : AdapterDone(MainThread, runs)
    \/ Return(MainThread)
    \/ StepRaise(MainThread)

SpecCommit == Init /\ [][NextCommit]_vars

-----------------------------------------------------------------------------
(* SpecDecorate: functions are defined and decorated with apiready       *)

NextDecorate ==
    \/ \E name \in FunctionNames, params \in Signatures, returns \in ReturnHints :
          DefFunction(name, params, returns)
    \/ \E variant \in Variants, path \in PathArgs, method \in MethodArgs,
          transaction \in BOOLEAN :
          ApiReady(variant, path, method, transaction)

SpecDecorate == Init /\ [][NextDecorate]_vars

-----------------------------------------------------------------------------
(* SpecClass: class bodies are filled with functions and the class       *)
(* statements complete                                                     *)

ClassFunctionNames == {"read_text", "exists"}

SpecClassIds == {"c1", "c2"}

\* c2 is a base class with at most the method read_text, c1 may derive from it
NextClass ==
    \/ \E name \in ClassFunctionNames : DefFunction(name, <<>>, "none")
    \/ \E transaction \in BOOLEAN : ApiReady("enablers", "None", "None", transaction)
    \/ \E c \in SpecClassIds, kind \in {"function", "classmethod"} :
          /\ c = "c2" => func.name = "read_text"
          /\ AddMember(c, kind)
    \/ \E c \in SpecClassIds, path \in {"NoDecorator", "/storage"} :
          \/ ClassStatement(c, "Library", IF c = "c1" THEN "m1" ELSE "m2", "object", path)
          \/ c = "c1" /\ ClassStatement(c, "Library", "m1", "c2", path)

SpecClass == Init /\ [][NextClass]_vars

\* Methods and endpoints: the methods of a class c1 that may derive from c2,
\* decorated by either apiready, and the structure of the two classes
NextEndpoints ==
    \/ \E name \in ClassFunctionNames : DefFunction(name, <<>>, "none")
    \/ \E variant \in Variants, path \in {"None", "/custom"}, transaction \in BOOLEAN :
          /\ IF func.name = "read_text"
             THEN variant = "enablers" /\ (transaction <=> path = "None")
             ELSE path = "None" /\ ~transaction
          /\ ApiReady(variant, path, "None", transaction)
    \/ \E c \in SpecClassIds, kind \in MemberKinds :
          /\ kind = "classmethod" => func.name = "read_text"
          /\ kind = "staticmethod" => func.name = "exists"
          /\ c = "c2" => (func.name = "read_text" /\ kind = "function")
          /\ AddMember(c, kind)
    \/ \E path \in {"NoDecorator", "None", "/storage"} :
          \/ ClassStatement("c2", "Shelf", "m2", "object", path)
          \/ \E baseId \in {"object", "c2"} : ClassStatement("c1", "Library", "m1", baseId, path)
    \/ \E variant \in IntrospectionVariants, c \in SpecClassIds :
          GetApiStructure(variant, c, FALSE, FALSE, "dict", TRUE)

SpecEndpoints == Init /\ [][NextEndpoints]_vars

\* Eager discovery: Library (c1) in module m1, a class Shelf in m1 (c2) and
\* a class Shelf in m2 (c3) that may derive from c2, the attributes of the
\* instances (a Shelf of m2 may refer to itself, a Shelf of m1 back to the
\* Library), and get_api_structure in every mode
NextEager ==
    \/ \E path \in {"NoDecorator", "/storage"} :
          ClassStatement("c1", "Library", "m1", "object", path)
    \/ \E path \in {"NoDecorator", "/books"} :
          /\ classes["c1"].defined
          /\ ClassStatement("c2", "Shelf", "m1", "object", path)
    \/ \E path \in {"NoDecorator", "/storage"}, baseId \in {"object", "c2"} :
          /\ classes["c2"].defined
          /\ ClassStatement("c3", "Shelf", "m2", baseId, path)
    \/ \E a \in AttrNames, x \in {"c2", "c3"} :
          /\ a = "_cache" => x = "c2"
          /\ a = "shelves" => x = "c3"
          /\ SetAttr("c1", a, x)
    \/ SetAttr("c2", "books", "c1")
    \/ SetAttr("c3", "books", "c3")
    \/ \E c \in {"c1", "c3"}, isInstance \in BOOLEAN, eager \in BOOLEAN, mode \in Modes,
          yamlInstalled \in BOOLEAN :
          /\ OutputFormat(mode) # "yaml" => yamlInstalled
          /\ mode # "dict" => (isInstance <=> eager)
          /\ GetApiStructure("introspection", c, isInstance, eager, mode, yamlInstalled)

SpecEager == Init /\ [][NextEager]_vars

-----------------------------------------------------------------------------
(* Properties of the environment                                           *)

\* the environment of the thread of the last operation
EnvNow == CurrentEnv(lastOp.t)

\* C1 as stated: after a with-block was left, every passed key that was
\* present at entry has its entry value again and every passed key that was
\* absent at entry is absent again, whatever the block did to currentEnv.
C1_AllKeysRestored ==
    lastOp.op = "exit" =>
        \A k \in DOMAIN lastOp.kwargs :
            IF k \in DOMAIN lastOp.entry
            THEN k \in DOMAIN EnvNow /\ EnvNow[k] = lastOp.entry[k]
            ELSE k \notin DOMAIN EnvNow

\* C1 amended: after a with-block was left, every passed key that was present
\* at entry has its entry value again; a passed key that was absent at entry
\* is absent again, unless the block left it with a value other than the one
\* passed to tempEnv: then the key stays, with that value.
C1_KeysRestoredUnlessChanged ==
    lastOp.op = "exit" =>
        \A k \in DOMAIN lastOp.kwargs :
            IF k \in DOMAIN lastOp.entry
            THEN k \in DOMAIN EnvNow /\ EnvNow[k] = lastOp.entry[k]
            ELSE IF k \in DOMAIN lastOp.before /\ lastOp.before[k] # lastOp.kwargs[k]
                 THEN k \in DOMAIN EnvNow /\ EnvNow[k] = lastOp.before[k]
                 ELSE k \notin DOMAIN EnvNow

\* a block that passed a present and an absent key was left by an exception
\* after it had overwritten the present key
C1_Witness ==
    /\ lastOp.op = "exit" /\ lastOp.exc /\ lastOp.touched
    /\ \E k \in DOMAIN lastOp.kwargs :
          /\ k \in DOMAIN lastOp.entry
          /\ k \in DOMAIN lastOp.before
          /\ lastOp.before[k] # lastOp.entry[k]
          /\ lastOp.before[k] # lastOp.kwargs[k]
    /\ \E k \in DOMAIN lastOp.kwargs :
          k \notin DOMAIN lastOp.entry /\ k \notin DOMAIN EnvNow

RECURSIVE ApplyBlocks(_, _)
\* the environment that results from env when each block sets its values in turn
ApplyBlocks(env, frames) ==
    IF frames = <<>> THEN env
    ELSE ApplyBlocks(DictUpdate(env, Head(frames).kwargs), Tail(frames))

\* C2: while the nested blocks of a thread do nothing to currentEnv but nest,
\* currentEnv holds inside each block that block's values, after leaving a
\* block the values of the enclosing blocks, and after the outermost exit
\* exactly what it held before the outermost entry.
C2_NestedBlocks ==
    /\ \A t \in Threads :
          (Running(t) /\ Depth(t) > 0 /\ ~touched[t]) =>
              /\ CurrentEnv(t) = ApplyBlocks(base[t], tempStack[t])
              /\ \A k \in DOMAIN tempStack[t][Depth(t)].kwargs :
                    /\ k \in DOMAIN CurrentEnv(t)
                    /\ CurrentEnv(t)[k] = tempStack[t][Depth(t)].kwargs[k]
    /\ (lastOp.op = "exit" /\ Depth(lastOp.t) = 0 /\ ~lastOp.touched) =>
          EnvNow = lastOp.base

\* an inner block was left and the enclosing block, which passed another
\* value for the key, is open; the key was absent before the outermost entry
C2_Witness ==
    /\ lastOp.op = "exit" /\ ~touched[MainThread]
    /\ Depth(MainThread) = 1
    /\ "level" \in DOMAIN lastOp.kwargs
    /\ "level" \in DOMAIN tempStack[MainThread][1].kwargs
    /\ lastOp.kwargs["level"] # tempStack[MainThread][1].kwargs["level"]
    /\ "level" \notin DOMAIN base[MainThread]

\* what db.currentEnv shows to thread t
View(t) ==
    IF ident[t] \in DOMAIN currentEnvByThread
    THEN currentEnvByThread[ident[t]] ELSE EmptyDict

\* C3: a step of one thread (setting, changing or removing a key, directly or
\* through tempEnv) leaves what currentEnv shows to every other running
\* thread unchanged.
C3_ThreadIsolation ==
    [][\A u \in Threads :
          (Running(u) /\ ident'[u] = ident[u] /\ lastOp'.t # u) => View(u)' = View(u)]_vars

\* two running threads, one inside a with-block that set a key the other
\* thread does not have
C3_Witness ==
    /\ Running("T1") /\ Running("T2")
    /\ Depth("T1") = 1 /\ Depth("T2") = 0
    /\ "level" \in DOMAIN View("T1")
    /\ "level" \notin DOMAIN View("T2")
    /\ lastOp.op = "del" /\ lastOp.t = "T2"

-----------------------------------------------------------------------------
(* Properties of the trigger stack and of Table.insert                    *)

\* C4: a wrapped method called on a table while the same method of that table
\* instance is executing further up the call stack returns None at once and
\* executes no statement of its body.
C4_ReentrantCallSuppressed ==
    (lastCall.op = "call" /\ lastCall.executing) =>
        /\ lastCall.outcome = "suppressed"
        /\ lastCall.result = "None"
        /\ lastCall.log = <<>>
        /\ CallDepth(MainThread) = lastCall.depth

\* from inside a trigger of product.insert, two levels down, product.insert
\* of the same instance was called again
C4_Witness ==
    /\ lastCall.op = "call" /\ lastCall.executing
    /\ lastCall.method = "insert"
    /\ CallDepth(MainThread) = 2
    /\ callStack[MainThread][1].table = lastCall.table
    /\ callStack[MainThread][1].method = "insert"
    /\ callStack[MainThread][2].table # lastCall.table
    /\ CurrentStep(MainThread) = "trigger_onInserting"

\* C5 as stated: a call is suppressed only if the same method of the same
\* table instance is executing in the current call stack.
C5_SuppressedOnlyIfSameInstance ==
    (lastCall.op = "call" /\ lastCall.outcome = "suppressed") => lastCall.executing

InsertOrder ==
    <<"checkPkey", "_validate", "trigger_onInserting", "adapter.insert", "trigger_onInserted">>

IsPrefix(s, r) == Len(s) <= Len(r) /\ s = SubSeq(r, 1, Len(s))

\* C6: the statements an insert has begun are always an initial part of
\* primary-key check, validation, trigger_onInserting, INSERT,
\* trigger_onInserted; a statement that raises is the last one of its call,
\* and an insert returns only after all five.
C6_InsertOrder ==
    /\ \A i \in 1..CallDepth(MainThread) :
          callStack[MainThread][i].method = "insert" =>
              /\ callStack[MainThread][i].log # <<>>
              /\ IsPrefix(callStack[MainThread][i].log, InsertOrder)
    /\ (lastCall.method = "insert" /\ lastCall.outcome # "suppressed") =>
          IsPrefix(lastCall.log, InsertOrder)
    /\ (lastCall.method = "insert" /\ lastCall.outcome = "returned") =>
          lastCall.log = InsertOrder

\* trigger_onInserting raised inside an insert: the insert ended with
\* validation done and neither INSERT nor trigger_onInserted begun
C6_Witness ==
    /\ lastCall.op = "end" /\ lastCall.method = "insert"
    /\ lastCall.outcome = "raised"
    /\ lastCall.log = <<"checkPkey", "_validate", "trigger_onInserting">>

-----------------------------------------------------------------------------
(* Properties of insert, delete and get                                   *)

\* C7 as stated: an insert that is accepted returns the primary key of the row
\* it created, and get of that key returns a row with the record's title,
\* whether the record omits the key, supplies it or holds None for it.
C7_InsertReturnsKey ==
    (lastCrud.op = "insert" /\ lastCrud.outcome = "returned") =>
        /\ lastCrud.result = lastCrud.created
        /\ GetResult(rows, lastCrud.result).raises = "none"
        /\ GetResult(rows, lastCrud.result).title = lastCrud.title

\* C8: after delete(record) of an existing row, get of its key raises KeyError
\* and list() does not return the row, every other row is returned unchanged
\* by get and list; get raises KeyError for every key that has no row.
C8_DeleteThenGet ==
    /\ (lastCrud.op = "delete" /\ lastCrud.outcome = "returned"
            /\ lastCrud.id \in DOMAIN lastCrud.before) =>
          /\ GetResult(rows, lastCrud.id).raises = "KeyError"
          /\ \A r \in ListResult(rows) : r.id # lastCrud.id
          /\ \A k \in DOMAIN lastCrud.before \ {lastCrud.id} :
                /\ GetResult(rows, k) = GetResult(lastCrud.before, k)
                /\ GetResult(rows, k).raises = "none"
          /\ ListResult(rows) =
                {r \in ListResult(lastCrud.before) : r.id # lastCrud.id}
    /\ lastCrud.op = "get" =>
          (lastCrud.outcome = "KeyError" <=> lastCrud.id \notin DOMAIN rows)
    /\ \A pk \in KeyInputs \ {Omitted} :
          pk \notin DOMAIN rows => GetResult(rows, pk).raises = "KeyError"

\* a row was deleted from a table of three rows
C8_Witness ==
    /\ lastCrud.op = "delete" /\ lastCrud.outcome = "returned"
    /\ lastCrud.id \in DOMAIN lastCrud.before
    /\ Cardinality(DOMAIN lastCrud.before) = 3
    /\ Cardinality(DOMAIN rows) = 2

-----------------------------------------------------------------------------
(* Properties of migrate                                                  *)

AddStatements(stmts) == {i \in 1..Len(stmts) : stmts[i].kind = "ADD COLUMN"}

\* C9 as stated: after migrate() returned, the table exists and has a column
\* for every entry of table.columns; a missing table was created by exactly
\* one CREATE TABLE, an existing table received exactly one ADD COLUMN for
\* each column it lacked, and the returned list is the statements executed,
\* in execution order.
C9_MigrateCreatesColumns ==
    (lastMig.op = "migrate" /\ lastMig.outcome = "returned") =>
        /\ dbExists
        /\ SqlNames(columns) \subseteq Range(dbCols)
        /\ ~lastMig.existed => lastMig.executed = <<Stmt("CREATE TABLE", "")>>
        /\ lastMig.existed =>
              /\ \A n \in SqlNames(columns) \ Range(lastMig.cols) :
                    Cardinality({i \in AddStatements(lastMig.executed) :
                                    lastMig.executed[i].col = n}) = 1
              /\ \A i \in AddStatements(lastMig.executed) :
                    lastMig.executed[i].col \in SqlNames(columns) \ Range(lastMig.cols)
        /\ lastMig.returned = lastMig.executed

RowsKept(before, after, cols) ==
    /\ Len(after) = Len(before)
    /\ \A i \in 1..Len(before) : \A x \in cols : after[i][x] = before[i][x]

\* C10 as stated: migrate(drop_columns=False) removes no column and no row of
\* an existing table; a migrate(drop_columns=True) that returned removed
\* exactly the database columns that the schema does not define, and none
\* that it defines.
C10_MigrateDropsOnlyExtraColumns ==
    /\ (lastMig.op = "migrate" /\ lastMig.existed /\ ~lastMig.drop) =>
          /\ Range(lastMig.cols) \subseteq Range(dbCols)
          /\ RowsKept(lastMig.rows, dbRows, Range(lastMig.cols))
    /\ (lastMig.op = "migrate" /\ lastMig.existed /\ lastMig.drop
            /\ lastMig.outcome = "returned") =>
          /\ Range(lastMig.cols) \ Range(dbCols) = Range(lastMig.cols) \ SqlNames(columns)
          /\ SqlNames(columns) \cap (Range(lastMig.cols) \ Range(dbCols)) = {}

RebuildOrder == <<"CREATE TEMP", "COPY", "DROP TABLE", "RENAME">>

IsRebuildStmt(st) == st.kind \in Range(RebuildOrder)

\* the kinds of the rebuild statements among the executed ones, in order
RebuildKinds(stmts) ==
    LET sel == SelectSeq(stmts, IsRebuildStmt)
    IN [i \in 1..Len(sel) |-> sel[i].kind]

-----------------------------------------------------------------------------
(* Properties of commit                                                   *)

\* C12: every insert, update and delete that executed a statement has
\* committed it when the adapter call returns, and the statement stays
\* committed whatever happens later, an exception of the enclosing operation
\* included: nothing executed is left uncommitted or taken back.
C12_CommittedPerCall ==
    /\ \A db \in Databases : written[db] = {}
    /\ \A w \in issued : w \in committed[w.table.db]

\* the outermost operation raised before executing a statement of its own,
\* after an insert made from its trigger had executed one
C12_Witness ==
    /\ lastCall.op = "end" /\ lastCall.outcome = "raised" /\ lastCall.depth = 0
    /\ \E w \in issued : w.depth = 2 /\ w.method = "insert"
    /\ \A w \in issued : w.depth # 1

-----------------------------------------------------------------------------
(* Properties of apiready                                                 *)

\* C13 as stated: without a method argument the HTTP method is GET for names
\* starting with read, get or list and POST for every other name; a method
\* argument overrides the inference.
C13_HttpMethodInference ==
    (lastApi.op = "apiready" /\ ~lastApi.raised) =>
        IF lastApi.method # "None" THEN func.meta.http_method = lastApi.method
        ELSE func.meta.http_method =
                IF \E prefix \in GetPrefixesReadGetList :
                      StartsWith(NameChars[func.name], prefix)
                THEN "GET" ELSE "POST"

\* C14: request_fields holds exactly the parameters other than self and cls,
\* each mapped to (type hint or Any, Ellipsis) without a default and to
\* (type hint or Any, default) with one.
C14_RequestFields ==
    (lastApi.op = "apiready" /\ ~lastApi.raised) =>
        LET rf == func.meta.request_fields
            ps == Range(func.params)
        IN /\ DOMAIN rf = {q.name : q \in ps} \ {"self", "cls"}
           /\ \A q \in ps : q.name \in DOMAIN rf =>
                 /\ rf[q.name][1] = (IF q.hint = "none" THEN "Any" ELSE q.hint)
                 /\ rf[q.name][2] = (IF q.default = "empty" THEN "Ellipsis" ELSE q.default)

\* read_text(self, path: str, encoding: str = "utf-8") was decorated
C14_Witness ==
    /\ lastApi.op = "apiready" /\ ~lastApi.raised
    /\ \E q \in Range(func.params) : q.name = "self"
    /\ \E q \in Range(func.params) : q.name # "self" /\ q.default = "empty"
    /\ \E q \in Range(func.params) : q.default = "utf-8"
    /\ DOMAIN func.meta.request_fields = {"path", "encoding"}

\* C15 as stated: a method of a class that was never decorated with
\* @apiready(path=...) does not carry _api_metadata.
C15_MetadataOnlyInMarkedClass ==
    \A c \in ClassIds :
        (classes[c].defined /\ ~HasBasePath(c)) =>
            \A n \in MemberNames(c) : ~HasMetadata(Member(c, n))

\* C16: a method decorated with the enablers' apiready has a transaction
\* entry in _api_metadata equal to the transaction argument, and the
\* structure PublisherBridge.get_api_structure builds reports that value in
\* the transaction field of the endpoint of the method.
C16_TransactionFlag ==
    /\ (lastApi.op = "apiready" /\ lastApi.variant = "enablers" /\ ~lastApi.raised) =>
          /\ "transaction" \in DOMAIN func.meta
          /\ func.meta.transaction = lastApi.transaction
    /\ (lastApi.op = "get_api_structure" /\ lastApi.variant = "bridge" /\ ~lastApi.raised) =>
          \A i \in 1..Len(lastApi.result.endpoints) :
              LET e == lastApi.result.endpoints[i]
                  meta == Member(lastApi.target, e.function_name).meta
              IN "transaction" \in DOMAIN meta => e.transaction = meta.transaction

\* the bridge reported one method decorated with transaction=True and one
\* decorated without it
C16_Witness ==
    /\ lastApi.op = "get_api_structure" /\ lastApi.variant = "bridge" /\ ~lastApi.raised
    /\ \E i, j \in 1..Len(lastApi.result.endpoints) :
          /\ lastApi.result.endpoints[i].transaction
          /\ Member(lastApi.target, lastApi.result.endpoints[i].function_name).meta.transaction
          /\ ~lastApi.result.endpoints[j].transaction
          /\ "transaction" \in
                DOMAIN Member(lastApi.target, lastApi.result.endpoints[j].function_name).meta

\* C17: get_api_structure raises ValueError exactly when the class of the
\* target has no _api_base_path, whatever the mode, the eager setting and
\* whether the target is the class or an instance.
C17_ValueErrorIffUnmarked ==
    lastApi.op = "get_api_structure" =>
        ((lastApi.error = "ValueError") <=> ~HasBasePath(lastApi.target))

\* an instance of an undecorated class was refused in eager html mode
C17_Witness ==
    /\ lastApi.op = "get_api_structure"
    /\ lastApi.error = "ValueError"
    /\ lastApi.isInstance /\ lastApi.eager /\ lastApi.mode = "html"
    /\ classes[lastApi.target].basePath = "None"

\* a class that inherits _api_base_path from its base was accepted
C17_WitnessInherited ==
    /\ lastApi.op = "get_api_structure"
    /\ lastApi.error = "none"
    /\ classes[lastApi.target].basePath = "None"

\* C18 as stated: the endpoints of a structure are exactly the methods of
\* the class that carry _api_metadata, one entry each, in ascending order
\* of the endpoint path.
C18_EndpointsExactlyDecorated ==
    (lastApi.op = "get_api_structure" /\ ~lastApi.raised) =>
        LET endpoints == lastApi.result.endpoints
            c == lastApi.target
            decorated == {n \in MemberNames(c) : HasMetadata(Member(c, n))}
        IN /\ {endpoints[i].function_name : i \in 1..Len(endpoints)} = decorated
           /\ Len(endpoints) = Cardinality(decorated)
           /\ \A i \in 1..Len(endpoints) :
                 endpoints[i].path = Member(c, endpoints[i].function_name).meta.endpoint_path
           /\ \A i, j \in 1..Len(endpoints) :
                 i < j => ~CharsLess(endpoints[j].path, endpoints[i].path)

\* What does hold: the endpoints are exactly the decorated members that
\* inspect.isfunction accepts, functions and staticmethods, in ascending
\* order of the endpoint path.
C18_EndpointsOfFunctions ==
    (lastApi.op = "get_api_structure" /\ ~lastApi.raised) =>
        LET endpoints == lastApi.result.endpoints
            c == lastApi.target
            decorated == {n \in MemberNames(c) :
                             /\ HasMetadata(Member(c, n))
                             /\ Member(c, n).kind # "classmethod"}
        IN /\ {endpoints[i].function_name : i \in 1..Len(endpoints)} = decorated
           /\ Len(endpoints) = Cardinality(decorated)
           /\ \A i, j \in 1..Len(endpoints) :
                 i < j => ~CharsLess(endpoints[j].path, endpoints[i].path)

\* two endpoints whose order by path is the reverse of their order by name
C18_WitnessSorted ==
    /\ lastApi.op = "get_api_structure" /\ ~lastApi.raised
    /\ Len(lastApi.result.endpoints) = 2
    /\ lastApi.result.endpoints[1].function_name = "read_text"
    /\ lastApi.result.endpoints[2].function_name = "exists"

\* C19: a structure built with eager=False has no children key; one built
\* with eager=True from an instance has, for every public attribute whose
\* class is marked, that class among its children; and a children key is
\* never empty.
C19_EagerChildren ==
    (/\ lastApi.op = "get_api_structure" /\ ~lastApi.raised
     /\ OutputFormat(lastApi.mode) \in {"dict", "json", "yaml"}) =>
        LET structure == lastApi.result
            c == lastApi.target
        IN /\ ~lastApi.eager => "children" \notin DOMAIN structure
           /\ (lastApi.eager /\ lastApi.isInstance) =>
                 \A a \in DOMAIN classes[c].attrs :
                     (Head(AttrChars[a]) # "_" /\ HasBasePath(classes[c].attrs[a])) =>
                         /\ "children" \in DOMAIN structure
                         /\ \E i \in 1..Len(structure.children) :
                               /\ structure.children[i].class_name =
                                     classes[classes[c].attrs[a]].name
                               /\ structure.children[i].base_path =
                                     ClassBasePath(classes[c].attrs[a])
           /\ "children" \in DOMAIN structure => structure.children # <<>>

\* the same with a child recognised by its class name alone
C19_EagerChildrenByName ==
    (/\ lastApi.op = "get_api_structure" /\ ~lastApi.raised
     /\ OutputFormat(lastApi.mode) \in {"dict", "json", "yaml"}) =>
        LET structure == lastApi.result
            c == lastApi.target
        IN /\ ~lastApi.eager => "children" \notin DOMAIN structure
           /\ (lastApi.eager /\ lastApi.isInstance) =>
                 \A a \in DOMAIN classes[c].attrs :
                     (Head(AttrChars[a]) # "_" /\ HasBasePath(classes[c].attrs[a])) =>
                         /\ "children" \in DOMAIN structure
                         /\ \E i \in 1..Len(structure.children) :
                               structure.children[i].class_name =
                                   classes[classes[c].attrs[a]].name
           /\ "children" \in DOMAIN structure => structure.children # <<>>

\* an instance with a marked public attribute was introspected eagerly
C19_Witness ==
    /\ lastApi.op = "get_api_structure" /\ ~lastApi.raised
    /\ lastApi.eager /\ lastApi.isInstance /\ lastApi.mode = "dict"
    /\ \E a \in DOMAIN classes[lastApi.target].attrs :
          Head(AttrChars[a]) # "_" /\ HasBasePath(classes[lastApi.target].attrs[a])
    /\ "children" \in DOMAIN lastApi.result

\* an eager call found no child and a lazy call on a class with marked
\* attributes was made
C19_WitnessNoChildren ==
    /\ lastApi.op = "get_api_structure" /\ ~lastApi.raised
    /\ lastApi.eager /\ lastApi.mode = "dict"
    /\ "children" \notin DOMAIN lastApi.result

\* C20 as stated: whenever add_db(name, ...) has returned, db(name) returns
\* the GenroMicroDb of the most recent add_db for that name, and db(name)
\* raises KeyError for a name that was never added.
C20_DbReturnsLastAdded ==
    lastApp.op = "db" =>
        IF lastApp.name \in DOMAIN returned
        THEN lastApp.error = "none" /\ lastApp.result = returned[lastApp.name]
        ELSE lastApp.error = "KeyError"

\* What does hold: the statement for an application to which no database
\* was added under a name that is an attribute of the application.
C20_DbReturnsLastAddedOrdinary ==
    (lastApp.op = "db" /\ DOMAIN appDict \subseteq {"maindb", "logdb"}) =>
        IF lastApp.name \in DOMAIN returned
        THEN lastApp.error = "none" /\ lastApp.result = returned[lastApp.name]
        ELSE lastApp.error = "KeyError"

\* db returned the second of two databases added under the same name
C20_WitnessReplaced ==
    /\ lastApp.op = "db" /\ lastApp.error = "none"
    /\ lastApp.result = 2 /\ dbCount = 2

\* C21 as stated: the params compile_select returns are exactly the keyword
\* arguments whose names are not columns, where, order_by, group_by, limit
\* or offset, each with its value.
C21_ParamsAreTheOtherKeywords ==
    lastSelect.op = "compile_select" =>
        LET clauseNames == {"columns", "where", "order_by", "group_by", "limit", "offset"}
        IN /\ DOMAIN lastSelect.params = DOMAIN lastSelect.kwargs \ clauseNames
           /\ \A n \in DOMAIN lastSelect.params : lastSelect.params[n] = lastSelect.kwargs[n]

\* What does hold: the statement for keyword names that are not the name of
\* a compile_ method either.
C21_ParamsExceptMethodNames ==
    lastSelect.op = "compile_select" =>
        LET clauseNames == {"columns", "where", "order_by", "group_by", "limit", "offset",
                            "select", "insert", "update", "delete"}
        IN /\ DOMAIN lastSelect.params = DOMAIN lastSelect.kwargs \ clauseNames
           /\ \A n \in DOMAIN lastSelect.params : lastSelect.params[n] = lastSelect.kwargs[n]

\* a call with clauses and two parameters, one of them None
C21_Witness ==
    /\ lastSelect.op = "compile_select"
    /\ DOMAIN lastSelect.kwargs = {"columns", "where", "limit", "g", "min_pages"}
    /\ lastSelect.kwargs["g"] = "None"
    /\ DOMAIN lastSelect.params = {"g", "min_pages"}

\* C22: when a wrapped call has returned, raised or been suppressed, the
\* _trigger_stack of the thread is what it was before the call; and in every
\* state the stack has no identifier twice and holds exactly the
\* identifiers of the wrapped calls executing in the thread.
C22_StackRestoredAndExact ==
    /\ (lastCall.op = "end" \/ (lastCall.op = "call" /\ lastCall.outcome = "suppressed")) =>
          triggerStack[MainThread] = lastCall.before
    /\ \A t \in Threads :
          /\ \A i, j \in 1..Len(triggerStack[t]) :
                triggerStack[t][i] = triggerStack[t][j] => i = j
          /\ triggerStack[t] =
                [i \in 1..Len(callStack[t]) |->
                    TriggerId(callStack[t][i].table, callStack[t][i].method)]

\* a call made from a trigger hook raised while its caller is still executing
C22_Witness ==
    /\ lastCall.op = "end" /\ lastCall.outcome = "raised"
    /\ lastCall.depth = 2
    /\ Len(triggerStack[MainThread]) = 2

\* C23: a thread has at most one active call per (table name, method), so
\* the nesting is bounded by the number of such pairs, and every chain of
\* calls that trigger hooks make ends: the outermost call is left.
C23_BoundedNestingTerminates ==
    /\ [](\A i, j \in 1..CallDepth(MainThread) :
            (/\ callStack[MainThread][i].table.name = callStack[MainThread][j].table.name
             /\ callStack[MainThread][i].method = callStack[MainThread][j].method) => i = j)
    /\ [](CallDepth(MainThread) <=
            Cardinality({ti.name : ti \in TableInstances} \X Methods))
    /\ (CallDepth(MainThread) > 0) ~> (CallDepth(MainThread) = 0)

\* product's hook inserted into audit, whose hook inserted into product
\* again and was turned away
C23_Witness ==
    /\ CallDepth(MainThread) = 2
    /\ callStack[MainThread][1].table.name = "product"
    /\ callStack[MainThread][2].table.name = "audit"
    /\ lastCall.op = "call" /\ lastCall.outcome = "suppressed"
    /\ lastCall.table.name = "product"

\* C24 as stated: a migrate that follows a migrate that returned, with no
\* change of the column definitions in between and dropping no more than
\* the first, executes no statement, returns an empty list and leaves the
\* columns and the rows of the database table as they were.
C24_MigrateIdempotent ==
    (/\ lastMig.op = "migrate"
     /\ lastMig.prev.op = "migrate" /\ lastMig.prev.outcome = "returned"
     /\ lastMig.drop => lastMig.prev.drop) =>
        /\ lastMig.outcome = "returned"
        /\ lastMig.returned = <<>>
        /\ lastMig.executed = <<>>
        /\ dbCols = lastMig.cols
        /\ dbRows = lastMig.rows

\* What does hold: the same for column definitions whose sql_name is the
\* logical name throughout.
C24_MigrateIdempotentSameNames ==
    (/\ lastMig.op = "migrate"
     /\ lastMig.prev.op = "migrate" /\ lastMig.prev.outcome = "returned"
     /\ lastMig.drop => lastMig.prev.drop
     /\ \A i \in 1..Len(columns) : columns[i].sql_name = columns[i].name) =>
        /\ lastMig.outcome = "returned"
        /\ lastMig.returned = <<>>
        /\ lastMig.executed = <<>>
        /\ dbCols = lastMig.cols
        /\ dbRows = lastMig.rows

\* a second migrate(drop_columns=True) on a table with a row found nothing to do
C24_Witness ==
    /\ lastMig.op = "migrate" /\ lastMig.drop
    /\ lastMig.prev.op = "migrate" /\ lastMig.prev.outcome = "returned" /\ lastMig.prev.drop
    /\ lastMig.outcome = "returned" /\ lastMig.returned = <<>>
    /\ dbRows # <<>>

-----------------------------------------------------------------------------
(* Properties of currentEnv in a newly started thread                     *)

\* C25: the first access to currentEnv in a thread that has just started
\* yields an empty dictionary, whatever earlier threads stored, also when the
\* identifier of a finished thread is given to the new one.
C25_NewThreadStartsEmpty ==
    lastOp.op = "start" => CurrentEnv(lastOp.t) = EmptyDict

\* What does hold: a thread that has just started finds what the store holds
\* under its identifier, which is empty when no thread that had the
\* identifier before left a key there.
C25_NewThreadFindsStoredDict ==
    lastOp.op = "start" =>
        /\ CurrentEnv(lastOp.t) = View(lastOp.t)
        /\ (\A i \in DOMAIN currentEnvByThread :
               i = ident[lastOp.t] => currentEnvByThread[i] = EmptyDict)
           => CurrentEnv(lastOp.t) = EmptyDict

\* a thread has just started with the identifier of a finished thread that
\* left nothing behind, while another thread holds a key
C25_Witness ==
    /\ lastOp.op = "start" /\ lastOp.t = "T2"
    /\ ident["T2"] \in DOMAIN currentEnvByThread
    /\ CurrentEnv("T2") = EmptyDict
    /\ CurrentEnv("T1") # EmptyDict

-----------------------------------------------------------------------------
(* Properties of the children of an eager structure                       *)

\* the nodes of a structure: the structure itself and the nodes of its children
RECURSIVE NodesOf(_)
NodesOf(structure) ==
    {structure} \cup
        (IF "children" \in DOMAIN structure
         THEN UNION {NodesOf(structure.children[i]) : i \in 1..Len(structure.children)}
         ELSE {})

\* no two children of the node have the same class name
DistinctChildren(node) ==
    "children" \in DOMAIN node =>
        \A i, j \in 1..Len(node.children) :
            node.children[i].class_name = node.children[j].class_name => i = j

\* C26: in an eager structure the children of every node hold at most one
\* entry per class name and no entry for the class of the node itself,
\* for children found through an attribute of the instance and for children
\* found in the module alike.
C26_ChildrenDistinctNotSelf ==
    (/\ lastApi.op = "get_api_structure" /\ ~lastApi.raised
     /\ lastApi.eager /\ OutputFormat(lastApi.mode) \in {"dict", "json", "yaml"}) =>
        \A node \in NodesOf(lastApi.result) :
            /\ DistinctChildren(node)
            /\ "children" \in DOMAIN node =>
                  \A i \in 1..Len(node.children) :
                      node.children[i].class_name # node.class_name

\* What does hold: at most one entry per class name in every node, and an
\* entry with the class name of the introspected object only when one of
\* its public attributes holds a marked object of that class name.
C26_ChildrenDistinct ==
    (/\ lastApi.op = "get_api_structure" /\ ~lastApi.raised
     /\ lastApi.eager /\ OutputFormat(lastApi.mode) \in {"dict", "json", "yaml"}) =>
        /\ \A node \in NodesOf(lastApi.result) : DistinctChildren(node)
        /\ "children" \in DOMAIN lastApi.result =>
              \A i \in 1..Len(lastApi.result.children) :
                  lastApi.result.children[i].class_name = lastApi.result.class_name =>
                      /\ lastApi.isInstance
                      /\ \E a \in DOMAIN classes[lastApi.target].attrs :
                            /\ Head(AttrChars[a]) # "_"
                            /\ HasBasePath(classes[lastApi.target].attrs[a])
                            /\ classes[classes[lastApi.target].attrs[a]].name =
                                  lastApi.result.class_name

\* an instance with two public attributes that hold marked objects of one
\* class name was introspected eagerly and has that name once among its
\* children
C26_Witness ==
    /\ lastApi.op = "get_api_structure" /\ ~lastApi.raised
    /\ lastApi.eager /\ lastApi.isInstance /\ lastApi.mode = "dict"
    /\ \E a, b \in DOMAIN classes[lastApi.target].attrs :
          /\ a # b /\ Head(AttrChars[a]) # "_" /\ Head(AttrChars[b]) # "_"
          /\ HasBasePath(classes[lastApi.target].attrs[a])
          /\ HasBasePath(classes[lastApi.target].attrs[b])
          /\ classes[classes[lastApi.target].attrs[a]].name =
                classes[classes[lastApi.target].attrs[b]].name
    /\ "children" \in DOMAIN lastApi.result
    /\ DistinctChildren(lastApi.result)

-----------------------------------------------------------------------------
(* Properties of the eager walk over an object graph with cycles           *)

\* the marked objects the public attributes of an object hold
Held(c) ==
    {classes[c].attrs[a] : a \in {b \in DOMAIN classes[c].attrs :
                                     /\ Head(AttrChars[b]) # "_"
                                     /\ HasBasePath(classes[c].attrs[b])}}

\* the objects reached from the objects in S over public attributes
RECURSIVE ReachedFrom(_)
ReachedFrom(S) ==
    LET next == S \cup UNION {Held(c) : c \in S}
    IN IF next = S THEN S ELSE ReachedFrom(next)

\* no object that c reaches over public attributes reaches itself
NoCycleFrom(c) ==
    \A x \in ReachedFrom({c}) : x \notin ReachedFrom(Held(x))

\* C27: an eager get_api_structure on a marked target ends by itself for
\* every object graph, also for two marked instances that refer to each
\* other through public attributes: the call returns, and the walk has not
\* descended until the interpreter's stack was used up.
C27_SinglePassTerminates ==
    (/\ lastApi.op = "get_api_structure" /\ lastApi.eager
     /\ lastApi.error \notin {"ValueError", "ImportError"}) =>
        /\ ~lastApi.raised
        /\ OutputFormat(lastApi.mode) \in {"dict", "json", "yaml"} =>
              Levels(lastApi.result) < MaxRecursion

\* What does hold: the statement for a target none of whose objects reaches
\* itself through public attributes; with a cycle the walk goes round until
\* the interpreter's stack is used up.
C27_SinglePassWithoutCycle ==
    (/\ lastApi.op = "get_api_structure" /\ lastApi.eager
     /\ lastApi.error \notin {"ValueError", "ImportError"}
     /\ lastApi.isInstance => NoCycleFrom(lastApi.target)) =>
        /\ ~lastApi.raised
        /\ OutputFormat(lastApi.mode) \in {"dict", "json", "yaml"} =>
              Levels(lastApi.result) < MaxRecursion

\* a Library that holds a Shelf of its module, which holds nothing marked in
\* public, was walked and written as json: the Shelf has the class Library
\* of its module as its child
C27_Witness ==
    /\ lastApi.op = "get_api_structure" /\ ~lastApi.raised
    /\ lastApi.eager /\ lastApi.isInstance /\ lastApi.mode = "json"
    /\ Held(lastApi.target) # {}
    /\ NoCycleFrom(lastApi.target)
    /\ Levels(lastApi.result) = 3

-----------------------------------------------------------------------------
(* Properties of the lazy connection                                       *)

\* the call opened no connection and closed none
NothingOpened ==
    /\ opened = lastConn.before.opened
    /\ closedConns = lastConn.before.closedConns

\* the access opened a connection no earlier access had returned
OpenedNew ==
    /\ lastConn.error = "none"
    /\ opened = lastConn.before.opened + 1
    /\ lastConn.result.id = opened
    /\ connection = lastConn.result
    /\ closedConns = lastConn.before.closedConns

\* the access returned the connection the database had
ReturnedSame ==
    /\ lastConn.error = "none"
    /\ lastConn.result = lastConn.before.connection
    /\ connection = lastConn.before.connection
    /\ NothingOpened

\* close() closed the connection the database had, or did nothing
ClosedOrNothing ==
    /\ connection = NoConnection
    /\ opened = lastConn.before.opened
    /\ closedConns = IF lastConn.before.connection = NoConnection
                     THEN lastConn.before.closedConns
                     ELSE lastConn.before.closedConns \cup {lastConn.before.connection.id}

C28_WitnessCloseTwice ==
    /\ lastConn.op = "close"
    /\ lastConn.before.connection = NoConnection
    /\ closedConns = {1}

-----------------------------------------------------------------------------
(* Properties of an insert whose validation fails                         *)

\* C29: when insert raises because _validate refused the record, no trigger
\* hook of the insert has run, its INSERT was not executed, and the
\* statements executed and committed are those from before the call.
C29_ValidationFailsBeforeEffects ==
    (/\ lastCall.op = "end" /\ lastCall.method = "insert"
     /\ lastCall.outcome = "raised"
     /\ lastCall.log[Len(lastCall.log)] = "_validate") =>
        /\ \A i \in 1..Len(lastCall.log) :
              lastCall.log[i] \notin TriggerHooks \cup AdapterSteps
        /\ StmtsNow = lastCall.stmts

\* an insert made from a trigger hook of another insert failed validation
\* after a statement had been executed
C29_Witness ==
    /\ lastCall.op = "end" /\ lastCall.method = "insert"
    /\ lastCall.outcome = "raised"
    /\ lastCall.log = <<"checkPkey", "_validate">>
    /\ lastCall.depth = 1
    /\ issued # {}

=============================================================================
